---- MODULE Spec2Model ----
(***************************************************************************)
(* Sinhala trainer: SM-2 updater, queue builder and session state machine  *)
(* of src/src/App.tsx.                                                     *)
(*                                                                         *)
(* Numbers.  `ease` is a JavaScript double in the source; a record keeps   *)
(* it as `ease`, the decimal in hundredths (2.5 is 250, the floor 1.3 is   *)
(* 130), and `easeErr`, the distance of the double from that decimal, and  *)
(* calculateSM2 computes with the rounding of the doubles.  Time is        *)
(* measured in ticks of one day: the source's 24*60*60*1000 ms is DayMs    *)
(* ticks.                                                                  *)
(*                                                                         *)
(* Randomness.  Math.random() is an injected cyclic stream of numerators   *)
(* over RandDen; every handler draws its stream from RandStreams.          *)
(*                                                                         *)
(* React.  A handler together with the render that follows it (the useMemo *)
(* of allCategoryStats, the mount and unmount of QuizScreen) is one step.  *)
(***************************************************************************)
EXTENDS Integers, Sequences, FiniteSets, TLC

VARIABLES
    card,             \* SM-2 harness: the record the grades are applied to
    prevCard,         \* SM-2 harness: the record before the last grade
    grades,           \* SM-2 harness: the qualities applied so far
    now,              \* the clock read by new Date().getTime()
    vocab,            \* ALL_WORDS, the catalog in its order
    state,            \* AppState: srs, totalReviews, correctReviews, sessionSize
    screen,           \* Screen: key and category
    session,          \* Session | null
    sentenceSession,  \* SentenceSession | null
    memo,             \* the useMemo value allCategoryStats
    timers,           \* pending setTimeout(endSession / endSentenceSession)
    quiz,             \* QuizScreen: selected, showNextButton, its timer
    lastEvent,        \* history: "done", or what else the last handler run did
    answered,         \* history: handleCardComplete calls since the session began
    reviewsAtStart,   \* history: totalReviews when the session began
    randomCard,       \* practice screen of the earlier revision: the card drawn
    choices,          \* QuizScreen: the word it was mounted with and its choices
    stored,           \* localStorage: the profile last written by saveAppState
    storageFull,      \* localStorage.setItem throws (quota exceeded)
    sentenceQuiz      \* SentenceQuizScreen: the sentence, bank, clicks, verdict

(***************************** bounds **************************************)
MaxGrades == 7      \* longest grade sequence applied to one record
MaxNow == 1         \* last clock tick

(*************************** constants *************************************)
DayMs == 1                      \* one day, in ticks
EASE_FLOOR == 130               \* Math.max(1.3, ease)
Undefined == -1                 \* an absent optional number (lastReviewed)

Qualities == {1, 2, 3, 4}

Max(a, b) == IF a >= b THEN a ELSE b
Min(a, b) == IF a <= b THEN a ELSE b

(************************ IEEE 754 doubles *********************************)
\* A JavaScript number near a decimal with two places is the pair of
\* `hundredths`, the decimal in hundredths, and `err`, what the double differs
\* from it, in units of 2^-58 / 100 (every double from 2^-6 up is a whole
\* number of them). The value is hundredths / 100 + err * 2^-58 / 100.
RECURSIVE Pow2Mod(_, _)
Pow2Mod(n, m) == IF n = 0 THEN 1 % m ELSE (2 * Pow2Mod(n - 1, m)) % m

\* The exponents of the doubles that occur, 2^n for n up to 21, and
\* 2^(52 - b) modulo 200 for these exponents b.
Exponents == -6 .. 15
Pow2 == [n \in 0 .. 21 |-> Pow2Mod(n, 4194304)]
Pow2Mod200 == [b \in Exponents |-> Pow2Mod(52 - b, 200)]

\* The value hundredths / 100 + err units is at least the whole number p,
\* and the value times the whole number p is at least 1.
AtLeastInt(hundredths, err, p) ==
    hundredths > 100 * p \/ (hundredths = 100 * p /\ err >= 0)
AtLeastInv(hundredths, err, p) ==
    hundredths * p > 100 \/ (hundredths * p = 100 /\ err >= 0)

\* The value is at least 2^b.
AtLeast(hundredths, err, b) ==
    IF b >= 0 THEN AtLeastInt(hundredths, err, Pow2[b])
    ELSE AtLeastInv(hundredths, err, Pow2[-b])

\* The exponent b of a positive value, 2^b <= value < 2^(b + 1), searched
\* upwards or downwards from b.
RECURSIVE ExponentUp(_, _, _)
ExponentUp(hundredths, err, b) ==
    IF AtLeast(hundredths, err, b + 1) THEN ExponentUp(hundredths, err, b + 1)
    ELSE b
RECURSIVE ExponentDown(_, _, _)
ExponentDown(hundredths, err, b) ==
    IF AtLeast(hundredths, err, b) THEN b
    ELSE ExponentDown(hundredths, err, b - 1)
Exponent(hundredths, err) ==
    IF AtLeast(hundredths, err, 0) THEN ExponentUp(hundredths, err, 0)
    ELSE ExponentDown(hundredths, err, -1)

\* The neighbour of the value on the grid of the doubles, given one unit in
\* the last place and the position of the value within two units: the nearer
\* one, and of two equally near the one with the even significand.
Nearest(hundredths, err, ulp, pos) ==
    [hundredths |-> hundredths,
     err |-> IF 2 * (pos % ulp) < ulp \/ (2 * (pos % ulp) = ulp /\ pos < ulp)
             THEN err - (pos % ulp) ELSE err - (pos % ulp) + ulp]

\* The position of the value modulo two units in the last place; one unit
\* is 100 * p units of err, and m is 2^(52 - b) modulo 200.
Position(hundredths, err, p, m) ==
    (((p * ((hundredths * m) % 200) + err) % (200 * p)) + 200 * p) % (200 * p)

\* The double nearest to a positive value whose unit in the last place
\* (2^(b - 52)) is 100 * p units of err.
RoundTo(hundredths, err, p, m) ==
    Nearest(hundredths, err, 100 * p, Position(hundredths, err, p, m))
RoundAt(hundredths, err, b) ==
    RoundTo(hundredths, err, Pow2[6 + b], Pow2Mod200[b])

\* The double nearest to the real number hundredths / 100 + err units, ties
\* to the even significand: the rounding of every arithmetic operation.
Fl(hundredths, err) ==
    IF hundredths = 0 /\ err = 0 THEN [hundredths |-> 0, err |-> 0]
    ELSE IF hundredths < 0
    THEN [hundredths |-> hundredths,
          err |-> -RoundAt(-hundredths, -err, Exponent(-hundredths, -err)).err]
    ELSE RoundAt(hundredths, err, Exponent(hundredths, err))

\* A decimal literal of the source, such as 0.1 or 1.3.
Lit(hundredths) == Fl(hundredths, 0)

\* x + y, and n * x for an integer n.
FlAdd(x, y) == Fl(x.hundredths + y.hundredths, x.err + y.err)
FlSub(x, y) == Fl(x.hundredths - y.hundredths, x.err - y.err)
FlMul(n, x) == Fl(n * x.hundredths, n * x.err)

\* Math.max(a, b)
MathMax(a, b) ==
    IF b.hundredths > a.hundredths
          \/ (b.hundredths = a.hundredths /\ b.err > a.err)
    THEN b ELSE a

\* Math.round(x) for x >= 0: the nearest integer, halves up.
MathRound(x) ==
    LET q == (x.hundredths + 50) \div 100
        rem == (x.hundredths + 50) % 100
    IN  IF rem = 0 /\ x.err < 0 THEN q - 1 ELSE q

\* The ease of a record, as a double.
Ease(c) == [hundredths |-> c.ease, err |-> c.easeErr]

\* The record handleCardComplete synthesizes for a never-reviewed word.
FreshCard(wordId) ==
    [id |-> wordId, reps |-> 0, lapses |-> 0, ease |-> 250, easeErr |-> 0,
     interval |-> 0,
     due |-> 0, lastReviewed |-> Undefined, strength |-> 100]

\* What a success adds to the ease:
\* 0.1 - (3 - quality) * (0.08 + (3 - quality) * 0.02)
EaseStep ==
    [quality \in Qualities |->
        LET n == 3 - quality
        IN  FlSub(Lit(10), FlMul(n, FlAdd(Lit(8), FlMul(n, Lit(2)))))]

\* The literals 1.3 and 0.2 of the ease.
EaseFloor == Lit(EASE_FLOOR)
EasePenalty == Lit(20)

\* calculateSM2 with the ease floor of the failure branch left out.
calculateSM2_NoFloor(c, quality, today) ==
    LET success == quality >= 3
        reps == IF success THEN c.reps + 1 ELSE 0
        lapses == IF success THEN c.lapses ELSE c.lapses + 1
        ease == IF success
                THEN MathMax(EaseFloor, FlAdd(Ease(c), EaseStep[quality]))
                ELSE FlSub(Ease(c), EasePenalty)
        interval == IF success
                    THEN IF reps = 1 THEN 1
                         ELSE IF reps = 2 THEN 6
                         ELSE MathRound(FlMul(c.interval, ease))
                    ELSE 1
    IN  [id |-> c.id, reps |-> reps, lapses |-> lapses,
         ease |-> ease.hundredths, easeErr |-> ease.err,
         interval |-> interval, due |-> today + interval * DayMs,
         lastReviewed |-> today, strength |-> Max(0, 100 - lapses * 15)]

\* calculateSM2 whose failure branch keeps the streak and the interval.
calculateSM2_NoReset(c, quality, today) ==
    LET success == quality >= 3
        reps == IF success THEN c.reps + 1 ELSE c.reps
        lapses == IF success THEN c.lapses ELSE c.lapses + 1
        ease == IF success
                THEN MathMax(EaseFloor, FlAdd(Ease(c), EaseStep[quality]))
                ELSE MathMax(EaseFloor, FlSub(Ease(c), EasePenalty))
        interval == IF success
                    THEN IF reps = 1 THEN 1
                         ELSE IF reps = 2 THEN 6
                         ELSE MathRound(FlMul(c.interval, ease))
                    ELSE c.interval
    IN  [id |-> c.id, reps |-> reps, lapses |-> lapses,
         ease |-> ease.hundredths, easeErr |-> ease.err,
         interval |-> interval, due |-> today + interval * DayMs,
         lastReviewed |-> today, strength |-> Max(0, 100 - lapses * 15)]

\* calculateSM2 whose failure branch resets the streak but keeps the interval.
calculateSM2_KeepInterval(c, quality, today) ==
    LET success == quality >= 3
        reps == IF success THEN c.reps + 1 ELSE 0
        lapses == IF success THEN c.lapses ELSE c.lapses + 1
        ease == IF success
                THEN MathMax(EaseFloor, FlAdd(Ease(c), EaseStep[quality]))
                ELSE MathMax(EaseFloor, FlSub(Ease(c), EasePenalty))
        interval == IF success
                    THEN IF reps = 1 THEN 1
                         ELSE IF reps = 2 THEN 6
                         ELSE MathRound(FlMul(c.interval, ease))
                    ELSE c.interval
    IN  [id |-> c.id, reps |-> reps, lapses |-> lapses,
         ease |-> ease.hundredths, easeErr |-> ease.err,
         interval |-> interval, due |-> today + interval * DayMs,
         lastReviewed |-> today, strength |-> Max(0, 100 - lapses * 15)]

\* calculateSM2 that multiplies by the ease before the grade's adjustment.
calculateSM2_OldEase(c, quality, today) ==
    LET success == quality >= 3
        reps == IF success THEN c.reps + 1 ELSE 0
        lapses == IF success THEN c.lapses ELSE c.lapses + 1
        ease == IF success
                THEN MathMax(EaseFloor, FlAdd(Ease(c), EaseStep[quality]))
                ELSE MathMax(EaseFloor, FlSub(Ease(c), EasePenalty))
        interval == IF success
                    THEN IF reps = 1 THEN 1
                         ELSE IF reps = 2 THEN 6
                         ELSE MathRound(FlMul(c.interval, Ease(c)))
                    ELSE 1
    IN  [id |-> c.id, reps |-> reps, lapses |-> lapses,
         ease |-> ease.hundredths, easeErr |-> ease.err,
         interval |-> interval, due |-> today + interval * DayMs,
         lastReviewed |-> today, strength |-> Max(0, 100 - lapses * 15)]

\* calculateSM2 that lowers the stored strength by 15 on a failure instead of
\* recomputing it from the lapses.
calculateSM2_StrengthDecay(c, quality, today) ==
    LET success == quality >= 3
        reps == IF success THEN c.reps + 1 ELSE 0
        lapses == IF success THEN c.lapses ELSE c.lapses + 1
        ease == IF success
                THEN MathMax(EaseFloor, FlAdd(Ease(c), EaseStep[quality]))
                ELSE MathMax(EaseFloor, FlSub(Ease(c), EasePenalty))
        interval == IF success
                    THEN IF reps = 1 THEN 1
                         ELSE IF reps = 2 THEN 6
                         ELSE MathRound(FlMul(c.interval, ease))
                    ELSE 1
    IN  [id |-> c.id, reps |-> reps, lapses |-> lapses,
         ease |-> ease.hundredths, easeErr |-> ease.err,
         interval |-> interval, due |-> today + interval * DayMs,
         lastReviewed |-> today,
         strength |-> IF success THEN c.strength ELSE Max(0, c.strength - 15)]

\* calculateSM2 that schedules with the interval of the input record.
calculateSM2_OldIntervalDue(c, quality, today) ==
    LET success == quality >= 3
        reps == IF success THEN c.reps + 1 ELSE 0
        lapses == IF success THEN c.lapses ELSE c.lapses + 1
        ease == IF success
                THEN MathMax(EaseFloor, FlAdd(Ease(c), EaseStep[quality]))
                ELSE MathMax(EaseFloor, FlSub(Ease(c), EasePenalty))
        interval == IF success
                    THEN IF reps = 1 THEN 1
                         ELSE IF reps = 2 THEN 6
                         ELSE MathRound(FlMul(c.interval, ease))
                    ELSE 1
    IN  [id |-> c.id, reps |-> reps, lapses |-> lapses,
         ease |-> ease.hundredths, easeErr |-> ease.err,
         interval |-> interval, due |-> today + c.interval * DayMs,
         lastReviewed |-> today, strength |-> Max(0, 100 - lapses * 15)]

\* calculateSM2 that lengthens the interval of an overdue record by the days
\* it was overdue.
calculateSM2_LateBonus(c, quality, today) ==
    LET success == quality >= 3
        late == Max(0, (today - c.due) \div DayMs)
        reps == IF success THEN c.reps + 1 ELSE 0
        lapses == IF success THEN c.lapses ELSE c.lapses + 1
        ease == IF success
                THEN MathMax(EaseFloor, FlAdd(Ease(c), EaseStep[quality]))
                ELSE MathMax(EaseFloor, FlSub(Ease(c), EasePenalty))
        interval == IF success
                    THEN IF reps = 1 THEN 1
                         ELSE IF reps = 2 THEN 6
                         ELSE MathRound(FlMul(c.interval + late, ease))
                    ELSE 1
    IN  [id |-> c.id, reps |-> reps, lapses |-> lapses,
         ease |-> ease.hundredths, easeErr |-> ease.err,
         interval |-> interval, due |-> today + interval * DayMs,
         lastReviewed |-> today, strength |-> Max(0, 100 - lapses * 15)]

\* calculateSM2 with a failed card scheduled again at once (interval 0).
calculateSM2_RelearnNow(c, quality, today) ==
    LET success == quality >= 3
        reps == IF success THEN c.reps + 1 ELSE 0
        lapses == IF success THEN c.lapses ELSE c.lapses + 1
        ease == IF success
                THEN MathMax(EaseFloor, FlAdd(Ease(c), EaseStep[quality]))
                ELSE MathMax(EaseFloor, FlSub(Ease(c), EasePenalty))
        interval == IF success
                    THEN IF reps = 1 THEN 1
                         ELSE IF reps = 2 THEN 6
                         ELSE MathRound(FlMul(c.interval, ease))
                    ELSE 0
    IN  [id |-> c.id, reps |-> reps, lapses |-> lapses,
         ease |-> ease.hundredths, easeErr |-> ease.err,
         interval |-> interval, due |-> today + interval * DayMs,
         lastReviewed |-> today, strength |-> Max(0, 100 - lapses * 15)]

\* calculateSM2(card, quality), with the clock reading passed in as `today`.
calculateSM2(c, quality, today) ==
    LET success == quality >= 3
        reps == IF success THEN c.reps + 1 ELSE 0
        lapses == IF success THEN c.lapses ELSE c.lapses + 1
        ease == IF success
                THEN MathMax(EaseFloor, FlAdd(Ease(c), EaseStep[quality]))
                ELSE MathMax(EaseFloor, FlSub(Ease(c), EasePenalty))
        interval == IF success
                    THEN IF reps = 1 THEN 1
                         ELSE IF reps = 2 THEN 6
                         ELSE MathRound(FlMul(c.interval, ease))
                    ELSE 1
    IN  [id |-> c.id, reps |-> reps, lapses |-> lapses,
         ease |-> ease.hundredths, easeErr |-> ease.err,
         interval |-> interval, due |-> today + interval * DayMs,
         lastReviewed |-> today, strength |-> Max(0, 100 - lapses * 15)]

\* calculateSM2 that assigns the fields of the card it was given instead of
\* its locals.
calculateSM2Argument_InPlace(c, quality, today) ==
    LET r == calculateSM2(c, quality, today)
    IN  [c EXCEPT !.reps = r.reps, !.lapses = r.lapses, !.ease = r.ease,
                  !.easeErr = r.easeErr, !.interval = r.interval]

\* The card handed to calculateSM2(card, quality), as the call leaves it:
\* reps, lapses, ease and interval are copied into locals, the locals alone
\* are assigned and the result is a new object, so no field of the card is
\* written.
calculateSM2Argument(c, quality, today) == c

(*********************** randomness and shuffle ****************************)
StreamLen == 1      \* period of the Math.random() stream of the application
QueueStreamLen == 2 \* period of the Math.random() stream of the queue builder
RandDen == 2        \* Math.random() takes the values 0/RandDen .. (RandDen-1)/RandDen

RandStreams == [1..StreamLen -> 0..(RandDen - 1)]
QueueStreams == [1..QueueStreamLen -> 0..(RandDen - 1)]

\* The k-th value (k = 0, 1, ...) Math.random() returns, as a numerator.
Random(rnd, k) == rnd[(k % Len(rnd)) + 1]

\* newArray with the (0-based) positions i and j exchanged.
Swap(newArray, i, j) ==
    [newArray EXCEPT ![i + 1] = newArray[j + 1], ![j + 1] = newArray[i + 1]]

\* The while loop of shuffle: currentIndex counts down to 0, k counts the
\* calls of Math.random().
RECURSIVE shuffleLoop(_, _, _, _)
shuffleLoop(newArray, currentIndex, rnd, k) ==
    IF currentIndex = 0 THEN newArray
    ELSE LET randomIndex == (Random(rnd, k) * currentIndex) \div RandDen
             swapped == Swap(newArray, currentIndex - 1, randomIndex)
         IN  \* the test makes the evaluation of swapped eager
             IF swapped = <<>> THEN swapped
             ELSE shuffleLoop(swapped, currentIndex - 1, rnd, k + 1)

\* shuffle(array), drawing from the stream rnd from its k-th value on; it
\* consumes Len(array) values.
shuffle(array, rnd, k) == shuffleLoop(array, Len(array), rnd, k)

\* array.slice(0, n)
Slice(array, n) == SubSeq(array, 1, Min(Len(array), Max(n, 0)))

Range(seq) == {seq[i] : i \in 1..Len(seq)}

(***************************** catalog *************************************)
Unlimited == 0                  \* SessionSize "unlimited"
SessionSizes == {5, 10, 20, Unlimited}
MAX_NEW_CARDS_TO_LEARN == 5
WEAK_CARD_MULTIPLIER == 3
WEAK_STRENGTH == 70             \* srsCard.strength < 70
FULL_REVIEW_ID == "full-review-mode"

Null == [isNull |-> TRUE]

\* ALL_CATEGORIES: the categories of VOCAB in order of first appearance.
RECURSIVE CategoriesUpTo(_, _)
CategoriesUpTo(v, n) ==
    IF n = 0 THEN <<>>
    ELSE LET before == CategoriesUpTo(v, n - 1)
         IN  IF v[n].category \in Range(before) THEN before
             ELSE Append(before, v[n].category)

ALL_CATEGORIES(v) == CategoriesUpTo(v, Len(v))

\* array.filter(pred) on the catalog, as the sequence of word ids kept.
RECURSIVE FilterIds(_, _, _)
FilterIds(v, n, keep) ==
    IF n = 0 THEN <<>>
    ELSE IF v[n].id \in keep THEN Append(FilterIds(v, n - 1, keep), v[n].id)
         ELSE FilterIds(v, n - 1, keep)

WordIds(v) == {v[i].id : i \in 1..Len(v)}
WordsOf(v, categoryId) == {v[i].id : i \in {j \in 1..Len(v) : v[j].category = categoryId}}

HasRecord(srs, id) == id \in DOMAIN srs
DueIds(v, srs, today) == {id \in WordIds(v) : HasRecord(srs, id) /\ srs[id].due <= today}
NewIds(v, srs) == {id \in WordIds(v) : ~HasRecord(srs, id)}

\* Array.prototype.sort with a numeric key, stable: insertion from the left.
RECURSIVE InsertByKey(_, _, _)
InsertByKey(sorted, id, key) ==
    IF sorted = <<>> THEN <<id>>
    ELSE IF key[sorted[Len(sorted)]] <= key[id] THEN Append(sorted, id)
         ELSE Append(InsertByKey(SubSeq(sorted, 1, Len(sorted) - 1), id, key),
                     sorted[Len(sorted)])

RECURSIVE SortByKey(_, _)
SortByKey(ids, key) ==
    IF ids = <<>> THEN <<>>
    ELSE InsertByKey(SortByKey(SubSeq(ids, 1, Len(ids) - 1), key),
                     ids[Len(ids)], key)

\* The useMemo of allCategoryStats with the review queue left in catalog
\* order (the sort by due omitted).
RECURSIVE StatsUpTo_Unsorted(_, _, _, _, _, _)
StatsUpTo_Unsorted(v, srs, today, cats, n, rnd) ==
    IF n = 0 THEN [k \in {} |-> <<>>]
    ELSE LET before == StatsUpTo_Unsorted(v, srs, today, cats, n - 1, rnd)
             used == IF n = 1 THEN 0 ELSE before[cats[n - 1]].drawn
             reviewsDue == FilterIds(v, Len(v),
                               DueIds(v, srs, today) \cap WordsOf(v, cats[n]))
             newCards == FilterIds(v, Len(v),
                               NewIds(v, srs) \cap WordsOf(v, cats[n]))
             entry == [reviewQueue |-> reviewsDue,
                       newQueue |-> shuffle(newCards, rnd, used),
                       drawn |-> used + Len(newCards)]
         IN  [k \in DOMAIN before \cup {cats[n]} |->
                 IF k = cats[n] THEN entry ELSE before[k]]

\* The useMemo of allCategoryStats: per category, the due words sorted by
\* due time and the new words shuffled.  `drawn` counts the Math.random()
\* values used so far, so that each shuffle continues the stream.
RECURSIVE StatsUpTo(_, _, _, _, _, _)
StatsUpTo(v, srs, today, cats, n, rnd) ==
    IF n = 0 THEN [k \in {} |-> <<>>]
    ELSE LET before == StatsUpTo(v, srs, today, cats, n - 1, rnd)
             used == IF n = 1 THEN 0 ELSE before[cats[n - 1]].drawn
             reviewsDue == FilterIds(v, Len(v),
                               DueIds(v, srs, today) \cap WordsOf(v, cats[n]))
             newCards == FilterIds(v, Len(v),
                               NewIds(v, srs) \cap WordsOf(v, cats[n]))
             key == [id \in Range(reviewsDue) |-> srs[id].due]
             entry == [reviewQueue |-> SortByKey(reviewsDue, key),
                       newQueue |-> shuffle(newCards, rnd, used),
                       drawn |-> used + Len(newCards)]
         IN  [k \in DOMAIN before \cup {cats[n]} |->
                 IF k = cats[n] THEN entry ELSE before[k]]

\* The value of the useMemo: allCategoryStats, with the `today` it was
\* computed at.
allCategoryStats(v, srs, today, rnd) ==
    LET cats == ALL_CATEGORIES(v)
        stats == StatsUpTo(v, srs, today, cats, Len(cats), rnd)
    IN  [today |-> today,
         stats |-> [k \in DOMAIN stats |->
                      [reviewQueue |-> stats[k].reviewQueue,
                       newQueue |-> stats[k].newQueue]]]

RECURSIVE SumLen(_, _, _)
SumLen(stats, cats, field) ==
    IF cats = {} THEN 0
    ELSE LET c == CHOOSE x \in cats : TRUE
         IN  (IF field = "reviewQueue" THEN Len(stats[c].reviewQueue)
              ELSE Len(stats[c].newQueue)) + SumLen(stats, cats \ {c}, field)

totalReviewsDue(stats) == SumLen(stats, DOMAIN stats, "reviewQueue")
totalNewCards(stats) == SumLen(stats, DOMAIN stats, "newQueue")

\* sessionLimit of startSession.
SessionLimit(v, sessionSize) ==
    IF sessionSize = Unlimited THEN Len(v) ELSE sessionSize

\* The studyQueue of startSession with the new cards taken first and the
\* due cards filling what is left.
BuildStudyQueue_NewFirst(stats, sessionLimit) ==
    LET numNewCards == Min(Min(Len(stats.newQueue), sessionLimit),
                           MAX_NEW_CARDS_TO_LEARN)
        numReviews == Min(Len(stats.reviewQueue), sessionLimit - numNewCards)
    IN  Slice(stats.newQueue, numNewCards) \o Slice(stats.reviewQueue, numReviews)

\* The studyQueue of startSession without the cap on new cards.
BuildStudyQueue_NoCap(stats, sessionLimit) ==
    LET numReviews == Min(Len(stats.reviewQueue), sessionLimit)
        numNewCards == Len(stats.newQueue)
    IN  Slice(stats.reviewQueue, numReviews) \o Slice(stats.newQueue, numNewCards)

\* The studyQueue of startSession before its final shuffle: the reviews
\* first, then the new cards.
BuildStudyQueue(stats, sessionLimit) ==
    LET numReviews == Min(Len(stats.reviewQueue), sessionLimit)
        remainingLimit == sessionLimit - numReviews
        numNewCards == Min(Min(Len(stats.newQueue), remainingLimit),
                           MAX_NEW_CARDS_TO_LEARN)
    IN  Slice(stats.reviewQueue, numReviews) \o Slice(stats.newQueue, numNewCards)

\* The reviewQueue of startFullReviewSession with the filler drawn from all
\* the reviewed cards, those already in the queue included.
BuildFullReviewQueue_NoDedup(v, srs, sessionSize, rnd) ==
    LET weakIds == {id \in WordIds(v) :
                        HasRecord(srs, id) /\ srs[id].strength < WEAK_STRENGTH}
        key == [id \in weakIds |->
                    IF srs[id].strength = 0 THEN 100 ELSE srs[id].strength]
        weakCards == SortByKey(FilterIds(v, Len(v), weakIds), key)
        totalCardsToReview == Cardinality(DOMAIN srs)
        sessionLimit == IF sessionSize = Unlimited THEN totalCardsToReview
                        ELSE Min(sessionSize, totalCardsToReview)
        numWeak == Min(Len(weakCards) * WEAK_CARD_MULTIPLIER, sessionLimit)
        weakPart == Slice(shuffle(weakCards, rnd, 0), numWeak)
        remainingSlots == sessionLimit - Len(weakPart)
        allReviewedCards == {id \in WordIds(v) : HasRecord(srs, id)}
        candidates == FilterIds(v, Len(v), allReviewedCards)
        fillerCandidates == shuffle(candidates, rnd, Len(weakCards))
    IN  IF remainingSlots > 0
        THEN [queue |-> weakPart \o Slice(fillerCandidates, remainingSlots),
              drawn |-> Len(weakCards) + Len(candidates)]
        ELSE [queue |-> weakPart, drawn |-> Len(weakCards)]

\* The reviewQueue of startFullReviewSession before its final shuffle, and
\* the number of Math.random() values drawn while building it.
BuildFullReviewQueue(v, srs, sessionSize, rnd) ==
    LET weakIds == {id \in WordIds(v) :
                        HasRecord(srs, id) /\ srs[id].strength < WEAK_STRENGTH}
        \* (srs[a]?.strength || 100): a strength of 0 sorts as 100
        key == [id \in weakIds |->
                    IF srs[id].strength = 0 THEN 100 ELSE srs[id].strength]
        weakCards == SortByKey(FilterIds(v, Len(v), weakIds), key)
        totalCardsToReview == Cardinality(DOMAIN srs)
        sessionLimit == IF sessionSize = Unlimited THEN totalCardsToReview
                        ELSE Min(sessionSize, totalCardsToReview)
        numWeak == Min(Len(weakCards) * WEAK_CARD_MULTIPLIER, sessionLimit)
        weakPart == Slice(shuffle(weakCards, rnd, 0), numWeak)
        remainingSlots == sessionLimit - Len(weakPart)
        allReviewedCards == {id \in WordIds(v) : HasRecord(srs, id)}
        candidates == FilterIds(v, Len(v), allReviewedCards \ Range(weakPart))
        fillerCandidates == shuffle(candidates, rnd, Len(weakCards))
    IN  IF remainingSlots > 0
        THEN [queue |-> weakPart \o Slice(fillerCandidates, remainingSlots),
              drawn |-> Len(weakCards) + Len(candidates)]
        ELSE [queue |-> weakPart, drawn |-> Len(weakCards)]

\* generateChoices with the distractors drawn from the whole pool, the
\* target included.
generateChoices_WholePool(wordId, v, rnd) ==
    LET candidates == FilterIds(v, Len(v), WordIds(v))
        distractors == shuffle(candidates, rnd, 0)
        selectedDistractors == Slice(distractors, 3)
    IN  shuffle(Append(selectedDistractors, wordId), rnd, Len(candidates))

\* generateChoices(word, vocab): up to three shuffled distractors and the
\* word, shuffled.
generateChoices(wordId, v, rnd) ==
    LET candidates == FilterIds(v, Len(v), WordIds(v) \ {wordId})
        distractors == shuffle(candidates, rnd, 0)
        selectedDistractors == Slice(distractors, 3)
    IN  shuffle(Append(selectedDistractors, wordId), rnd, Len(candidates))

(************************* application state *******************************)
MaxReviews == 2     \* graded answers in one run of the application
MaxTimers == 1      \* pending end-of-session timeouts

NoWord == 0                     \* no word id: selected === null, currentCard === null
NoCategory == "<undefined>"     \* navigate(key) called without a category

\* ./data/vocab is not part of the sources: a catalog of two words of one
\* category stands for it in the application (the queue builder is checked
\* on larger catalogs of two categories).
VOCAB ==
    << [id |-> 1, category |-> "a"], [id |-> 2, category |-> "a"] >>

\* SENTENCES: the first sentences of the data, s1 and s2 of two tokens and
\* s3 of three (without the diacritics).
SENTENCES ==
    << [id |-> 1, tokens |-> <<"oya", "kohomada?">>],
       [id |-> 2, tokens |-> <<"mata", "hondayi">>],
       [id |-> 3, tokens |-> <<"oyage", "nama", "mokakda?">>] >>

\* SENTENCE_CATEGORIES_DATA (category id -> label and sentenceIds), the first
\* and the last category of the source, and the ids that SENTENCES defines:
\* s4 and s5 of the first category and every sentence of the last are
\* missing from SENTENCE_MAP, as the holiday sections are with the
\* 40-sentence data file.
SENTENCE_CATEGORIES_DATA ==
    [greetings |-> [label |-> "Greetings & Polite Speech",
                    sentenceIds |-> <<1, 2, 3, 4, 5>>],
     holiday_time |-> [label |-> "Holiday: Time & Numbers",
                       sentenceIds |-> <<91, 92, 93, 94, 95, 96, 97, 98, 99, 100>>]]
SENTENCE_MAP_IDS == {SENTENCES[i].id : i \in DOMAIN SENTENCES}

\* loadAppState() with nothing stored.
defaultAppState ==
    [srs |-> [id \in {} |-> FreshCard(id)], totalReviews |-> 0,
     correctReviews |-> 0, sessionSize |-> 10]

InitialQuiz == [selected |-> NoWord, showNextButton |-> FALSE, timer |-> "none"]

\* useState<CardData[]>([]) of QuizScreen, before its effect has run.
NoChoices == [word |-> NoWord, options |-> <<>>]

\* No SentenceQuizScreen is mounted.
NoSentenceQuiz ==
    [mounted |-> FALSE, sentence |-> NoWord, wordChoices |-> <<>>,
     constructedSentence |-> <<>>, isCorrect |-> "null",
     showNextButton |-> FALSE]

\* currentCard (useMemo): the id of session.studyQueue[session.index].
currentCard(sess) ==
    IF sess = Null THEN NoWord
    ELSE IF ~sess.active THEN NoWord
    ELSE sess.studyQueue[sess.index + 1]

\* currentSentence (useMemo).
currentSentence(sent) ==
    IF sent = Null THEN NoWord
    ELSE IF ~sent.active THEN NoWord
    ELSE sent.queue[sent.index + 1]

\* renderScreen: the flags that pick the view.
isVocabReview(scr, sess) == scr.key = "review" /\ currentCard(sess) # NoWord
isPracticeMode(scr) == scr.key = "practice"
isSentenceQuiz(scr, sent) ==
    scr.key = "practice-sentences" /\ currentSentence(sent) # NoWord

\* renderScreen throws (session!.index or currentCard!.id of null) and React
\* unmounts the application.
RenderThrows(scr, sess) == isPracticeMode(scr) /\ currentCard(sess) = NoWord

\* The key of the mounted QuizScreen, NoWord when none is mounted.
QuizKey(scr, sess) ==
    IF (isVocabReview(scr, sess) \/ isPracticeMode(scr)) /\ ~RenderThrows(scr, sess)
    THEN currentCard(sess) ELSE NoWord

\* navigate(key, category) without its two clearing branches.
navigate_KeepSessions(key, category, captured, sess, sent) ==
    [screen |-> [key |-> key,
                 category |-> IF category = NoCategory THEN captured ELSE category],
     session |-> sess,
     sentenceSession |-> sent]

\* navigate(key, category) on the session values the handler has set so far;
\* captured is the screen.category its closure holds.
navigate(key, category, captured, sess, sent) ==
    [screen |-> [key |-> key,
                 category |-> IF category = NoCategory THEN captured ELSE category],
     session |-> IF key # "review" /\ key # "practice" THEN Null ELSE sess,
     sentenceSession |-> IF key # "practice-sentences" THEN Null ELSE sent]

\* handleCardComplete step 1 applying the grade a second time.
GradeState_Twice(s, wordId, quality, today) ==
    LET current == IF HasRecord(s.srs, wordId) THEN s.srs[wordId]
                   ELSE FreshCard(wordId)
        updatedCard == calculateSM2(calculateSM2(current, quality, today),
                                    quality, today)
    IN  [s EXCEPT
            !.srs = [id \in DOMAIN s.srs \cup {wordId} |->
                        IF id = wordId THEN updatedCard ELSE s.srs[id]],
            !.totalReviews = s.totalReviews + 2,
            !.correctReviews = s.correctReviews + (IF quality >= 3 THEN 2 ELSE 0)]

\* handleCardComplete step 1 that stores the updated record alone (the
\* spread of s.srs forgotten).
GradeState_Replace(s, wordId, quality, today) ==
    LET current == IF HasRecord(s.srs, wordId) THEN s.srs[wordId]
                   ELSE FreshCard(wordId)
        updatedCard == calculateSM2(current, quality, today)
    IN  [s EXCEPT
            !.srs = [id \in {wordId} |-> updatedCard],
            !.totalReviews = s.totalReviews + 1,
            !.correctReviews = s.correctReviews + (IF quality >= 3 THEN 1 ELSE 0)]

\* handleCardComplete step 1 that counts every review as correct.
GradeState_CountAll(s, wordId, quality, today) ==
    LET current == IF HasRecord(s.srs, wordId) THEN s.srs[wordId]
                   ELSE FreshCard(wordId)
        updatedCard == calculateSM2(current, quality, today)
    IN  [s EXCEPT
            !.srs = [id \in DOMAIN s.srs \cup {wordId} |->
                        IF id = wordId THEN updatedCard ELSE s.srs[id]],
            !.totalReviews = s.totalReviews + 1,
            !.correctReviews = s.correctReviews + 1]

\* handleCardComplete step 1 (setState): the graded profile.
GradeState(s, wordId, quality, today) ==
    LET current == IF HasRecord(s.srs, wordId) THEN s.srs[wordId]
                   ELSE FreshCard(wordId)
        updatedCard == calculateSM2(current, quality, today)
    IN  [s EXCEPT
            !.srs = [id \in DOMAIN s.srs \cup {wordId} |->
                        IF id = wordId THEN updatedCard ELSE s.srs[id]],
            !.totalReviews = s.totalReviews + 1,
            !.correctReviews = s.correctReviews + (IF quality >= 3 THEN 1 ELSE 0)]

\* handleCardComplete step 2 with a cursor that stays on the last card.
AdvanceSession_Stuck(s) ==
    IF s.index + 1 >= Len(s.studyQueue)
    THEN [s EXCEPT !.active = FALSE]
    ELSE [s EXCEPT !.index = s.index + 1]

\* handleCardComplete step 2 that drops the answered card from the queue
\* instead of moving the cursor.
AdvanceSession_Shift(s) ==
    [s EXCEPT !.studyQueue = Tail(s.studyQueue),
              !.active = IF Len(s.studyQueue) <= 1 THEN FALSE ELSE s.active]

\* handleCardComplete step 2 (setSession): the advanced session.
AdvanceSession(s) ==
    LET index == s.index + 1
    IN  [s EXCEPT !.index = index,
                  !.active = IF index >= Len(s.studyQueue) THEN FALSE ELSE s.active]

\* handleSentenceComplete with an index that passes over the next sentence.
AdvanceSentenceSession_SkipOne(s) ==
    LET index == s.index + 2
    IN  [s EXCEPT !.index = index,
                  !.active = IF index >= Len(s.queue) THEN FALSE ELSE s.active]

\* handleSentenceComplete (setSentenceSession): the advanced session.
AdvanceSentenceSession(s) ==
    LET index == s.index + 1
    IN  [s EXCEPT !.index = index,
                  !.active = IF index >= Len(s.queue) THEN FALSE ELSE s.active]

vars == <<card, prevCard, grades, now, vocab, state, screen, session,
          sentenceSession, memo, timers, quiz, lastEvent, answered,
          reviewsAtStart, randomCard, choices, stored, storageFull,
          sentenceQuiz>>

\* The screens that are checked on their own.
screens == <<randomCard, choices, sentenceQuiz, storageFull>>

\* The profile in memory and its mirror in localStorage.
profile == <<state, stored>>

\* saveAppState with a failing write that leaves an empty profile behind.
saveAppState_Truncate(s, disk, full) ==
    IF full THEN [srs |-> [id \in {} |-> 0], totalReviews |-> 0,
                  correctReviews |-> 0, sessionSize |-> 10]
    ELSE s

\* saveAppState(state) of the save effect: what localStorage holds after it;
\* the exception of setItem is caught and logged.
saveAppState(s, disk, full) == IF full THEN disk ELSE s

\* What the application of src/src/App.tsx leaves alone.
harness == <<card, prevCard, grades, screens>>

\* The history of the session that exists after a step.
History(sess, started, total) ==
    /\ answered' = IF sess = Null THEN 0 ELSE IF started THEN 0 ELSE answered
    /\ reviewsAtStart' = IF sess = Null THEN 0
                         ELSE IF started THEN total ELSE reviewsAtStart

\* The render after a step with an effect cleanup that leaves the timeout
\* of handleSelect pending.
Render_KeepTimer(q) == quiz' = q

\* The render after a step: QuizScreen keeps its state while the same card
\* stays mounted; its effect cleanup clears the timer otherwise.
Render(q) ==
    quiz' = IF QuizKey(screen', session') # NoWord
               /\ QuizKey(screen', session') = QuizKey(screen, session)
            THEN q ELSE InitialQuiz

Alive == ~RenderThrows(screen, session)

(***************************** handlers ************************************)
\* navigate(key) from a button.
Navigate(key) ==
    LET r == navigate(key, NoCategory, screen.category, session, sentenceSession)
    IN  /\ screen' = r.screen
        /\ session' = r.session
        /\ sentenceSession' = r.sentenceSession
        /\ lastEvent' = IF quiz.timer # "none" THEN "navigate:timerCleared"
                        ELSE "done"
        /\ History(r.session, FALSE, 0)
        /\ Render(quiz)
        /\ UNCHANGED <<harness, now, vocab, profile, memo, timers>>

\* endSession(), from the completion view's button or from its timeout;
\* captured is the screen.category of the closure.
EndSession(captured) ==
    LET r == navigate(IF captured = FULL_REVIEW_ID THEN "home" ELSE "categories",
                      NoCategory, captured, Null, sentenceSession)
    IN  /\ screen' = r.screen
        /\ session' = r.session
        /\ sentenceSession' = r.sentenceSession
        /\ lastEvent' = "done"
        /\ History(r.session, FALSE, 0)
        /\ Render(quiz)
        /\ UNCHANGED <<harness, now, vocab, profile, memo>>

\* endSentenceSession(), from its timeout.
EndSentenceSession(captured) ==
    LET r == navigate("sentence-categories", NoCategory, captured, session, Null)
    IN  /\ screen' = r.screen
        /\ session' = r.session
        /\ sentenceSession' = r.sentenceSession
        /\ lastEvent' = "done"
        /\ History(r.session, FALSE, 0)
        /\ Render(quiz)
        /\ UNCHANGED <<harness, now, vocab, profile, memo>>

\* startSession without its studyQueue.length === 0 return.
StartSession_NoGuard(categoryId) ==
    \E rnd \in RandStreams :
        LET stats == memo.stats[categoryId]
            sessionLimit == SessionLimit(vocab, state.sessionSize)
            studyQueue == BuildStudyQueue(stats, sessionLimit)
            newSession == [studyQueue |-> shuffle(studyQueue, rnd, 0), index |-> 0,
                           active |-> TRUE, totalCards |-> Len(studyQueue),
                           sessionCategory |-> categoryId]
            r == navigate("review", categoryId, screen.category, newSession,
                          sentenceSession)
        IN  /\ screen' = r.screen
            /\ session' = r.session
            /\ sentenceSession' = r.sentenceSession
            /\ lastEvent' = IF studyQueue = <<>> THEN "startSession:empty" ELSE "done"
            /\ History(r.session, TRUE, state.totalReviews)
            /\ quiz' = InitialQuiz
            /\ UNCHANGED <<harness, now, vocab, profile, memo, timers>>

\* startSession(categoryId)
StartSession(categoryId) ==
    \E rnd \in RandStreams :
        LET stats == memo.stats[categoryId]
            sessionLimit == SessionLimit(vocab, state.sessionSize)
            studyQueue == BuildStudyQueue(stats, sessionLimit)
            newSession == [studyQueue |-> shuffle(studyQueue, rnd, 0), index |-> 0,
                           active |-> TRUE, totalCards |-> Len(studyQueue),
                           sessionCategory |-> categoryId]
            r == navigate("review", categoryId, screen.category, newSession,
                          sentenceSession)
        IN  IF studyQueue = <<>>
            THEN /\ lastEvent' = "startSession:empty"
                 /\ UNCHANGED <<harness, now, vocab, profile, screen, session,
                                sentenceSession, memo, timers, quiz, answered,
                                reviewsAtStart>>
            ELSE /\ screen' = r.screen
                 /\ session' = r.session
                 /\ sentenceSession' = r.sentenceSession
                 /\ lastEvent' = "done"
                 /\ History(r.session, TRUE, state.totalReviews)
                 /\ quiz' = InitialQuiz
                 /\ UNCHANGED <<harness, now, vocab, profile, memo, timers>>

\* startFullReviewSession()
StartFullReviewSession ==
    \E rnd \in RandStreams :
        LET built == BuildFullReviewQueue(vocab, state.srs, state.sessionSize, rnd)
            reviewQueue == built.queue
            newSession == [studyQueue |-> shuffle(reviewQueue, rnd, built.drawn),
                           index |-> 0, active |-> TRUE,
                           totalCards |-> Len(reviewQueue),
                           sessionCategory |-> FULL_REVIEW_ID]
            r == navigate("review", FULL_REVIEW_ID, screen.category, newSession,
                          sentenceSession)
        IN  IF reviewQueue = <<>>
            THEN /\ lastEvent' = "startFullReviewSession:empty"
                 /\ UNCHANGED <<harness, now, vocab, profile, screen, session,
                                sentenceSession, memo, timers, quiz, answered,
                                reviewsAtStart>>
            ELSE /\ screen' = r.screen
                 /\ session' = r.session
                 /\ sentenceSession' = r.sentenceSession
                 /\ lastEvent' = "done"
                 /\ History(r.session, TRUE, state.totalReviews)
                 /\ quiz' = InitialQuiz
                 /\ UNCHANGED <<harness, now, vocab, profile, memo, timers>>

\* startSentencePractice(categoryId)
StartSentencePractice(categoryId) ==
    \E rnd \in RandStreams :
        LET categoryInfo == SENTENCE_CATEGORIES_DATA[categoryId]
            sentenceIds == categoryInfo.sentenceIds
            categorySentences == SelectSeq(sentenceIds,
                                           LAMBDA id : id \in SENTENCE_MAP_IDS)
            sessionLimit == IF state.sessionSize = Unlimited
                            THEN Len(categorySentences) ELSE state.sessionSize
            queue == Slice(shuffle(categorySentences, rnd, 0), sessionLimit)
            newSession == [queue |-> queue, index |-> 0, active |-> TRUE,
                           totalCards |-> Len(queue),
                           sessionCategory |-> categoryInfo.label,
                           isReview |-> FALSE]
            r == navigate("practice-sentences", categoryId, screen.category,
                          session, newSession)
        IN  IF queue = <<>>
            THEN /\ lastEvent' = "startSentencePractice:empty"
                 /\ UNCHANGED <<harness, now, vocab, profile, screen, session,
                                sentenceSession, memo, timers, quiz, answered,
                                reviewsAtStart>>
            ELSE /\ screen' = r.screen
                 /\ session' = r.session
                 /\ sentenceSession' = r.sentenceSession
                 /\ lastEvent' = "done"
                 /\ History(r.session, FALSE, 0)
                 /\ Render(quiz)
                 /\ UNCHANGED <<harness, now, vocab, profile, memo, timers>>

\* handleSentenceComplete(_isCorrect)
HandleSentenceComplete ==
    IF sentenceSession = Null
    THEN /\ lastEvent' = "handleSentenceComplete:null"
         /\ UNCHANGED <<harness, now, vocab, profile, screen, session,
                        sentenceSession, memo, timers, quiz, answered,
                        reviewsAtStart>>
    ELSE LET newS == AdvanceSentenceSession(sentenceSession)
         IN  /\ sentenceSession' = newS
             /\ timers' = IF newS.index >= Len(newS.queue)
                          THEN Append(timers, [kind |-> "endSentenceSession",
                                               category |-> screen.category])
                          ELSE timers
             /\ lastEvent' = "done"
             /\ UNCHANGED <<harness, now, vocab, profile, screen, session, memo,
                            quiz, answered, reviewsAtStart>>

\* handleCardComplete(wordId, quality, _isNewCard, isPractice)
HandleCardComplete(wordId, quality, isPractice) ==
    IF session = Null
    THEN /\ lastEvent' = "handleCardComplete:null"
         /\ UNCHANGED <<harness, now, vocab, profile, screen, session,
                        sentenceSession, memo, timers, quiz, answered,
                        reviewsAtStart>>
    ELSE \E rnd \in RandStreams :
         LET newS == AdvanceSession(session)
         IN  /\ state' = IF isPractice THEN state
                         ELSE GradeState(state, wordId, quality, now)
             /\ stored' = IF isPractice THEN stored
                          ELSE saveAppState(state', stored, storageFull)
             /\ memo' = IF isPractice THEN memo
                        ELSE allCategoryStats(vocab, state'.srs, now, rnd)
             /\ session' = newS
             /\ timers' = IF newS.index >= Len(newS.studyQueue)
                          THEN Append(timers, [kind |-> "endSession",
                                               category |-> screen.category])
                          ELSE timers
             /\ lastEvent' = "done"
             /\ answered' = answered + 1
             /\ UNCHANGED <<harness, now, vocab, screen, sentenceSession,
                            reviewsAtStart>>
             /\ Render([quiz EXCEPT !.timer = "none"])

(**************************** user events **********************************)
totalDue == totalReviewsDue(memo.stats) + totalNewCards(memo.stats)

\* The buttons that call navigate: the top bar, the home screen, the
\* sentence sections and the sentence completion view.
UINavigate ==
    \E key \in {"home", "settings", "categories", "sentence-categories", "practice"} :
        /\ Alive
        /\ key = "categories" => totalDue > 0
        /\ key = "sentence-categories" =>
              \/ screen.key = "home"
              \/ screen.key = "practice-sentences"
                 /\ ~isSentenceQuiz(screen, sentenceSession)
        /\ key = "practice" => screen.key = "home"
        /\ Navigate(key)

\* "Back to Categories" on the completion view of a vocabulary session.
UIEndSession ==
    /\ Alive
    /\ screen.key = "review"
    /\ ~isVocabReview(screen, session)
    /\ EndSession(screen.category)
    /\ UNCHANGED timers

\* "Study" of a vocabulary category.
UIStartSession ==
    \E categoryId \in Range(ALL_CATEGORIES(vocab)) :
        /\ Alive
        /\ screen.key = "categories"
        /\ StartSession(categoryId)

\* "Catch-up Review (All Words)" on the home screen.
UIStartFullReviewSession ==
    /\ Alive
    /\ screen.key = "home"
    /\ ~(totalDue = 0 /\ DOMAIN state.srs = {})
    /\ StartFullReviewSession

\* "Practice" of a sentence section.
UIStartSentencePractice ==
    \E categoryId \in DOMAIN SENTENCE_CATEGORIES_DATA :
        /\ Alive
        /\ screen.key = "sentence-categories"
        /\ StartSentencePractice(categoryId)

\* The session length buttons of the home screen.
UISetSessionSize ==
    \E size \in SessionSizes :
        /\ Alive
        /\ screen.key = "home"
        /\ state' = [state EXCEPT !.sessionSize = size]
        /\ stored' = saveAppState(state', stored, storageFull)
        /\ lastEvent' = "done"
        /\ UNCHANGED <<harness, now, vocab, screen, session, sentenceSession,
                       memo, timers, quiz, answered, reviewsAtStart>>

QuizShown == Alive /\ QuizKey(screen, session) # NoWord
CanGrade == state.totalReviews < MaxReviews /\ Len(timers) < MaxTimers

\* QuizScreen.handleSelect(choice)
QuizSelect ==
    \E rnd \in RandStreams :
        \E choice \in Range(generateChoices(QuizKey(screen, session), vocab, rnd)) :
            /\ QuizShown
            /\ CanGrade
            /\ quiz.selected = NoWord
            /\ quiz' = [selected |-> choice, showNextButton |-> FALSE,
                        timer |-> IF choice = QuizKey(screen, session)
                                  THEN "correct" ELSE "wrong"]
            /\ lastEvent' = "done"
            /\ UNCHANGED <<harness, now, vocab, profile, screen, session,
                           sentenceSession, memo, timers, answered,
                           reviewsAtStart>>

\* The ANSWER_DELAY_MS timeout of handleSelect fires.
QuizTimeout ==
    /\ QuizShown
    /\ quiz.timer # "none"
    /\ IF quiz.timer = "correct"
       THEN HandleCardComplete(QuizKey(screen, session), 3, isPracticeMode(screen))
       ELSE /\ quiz' = [quiz EXCEPT !.showNextButton = TRUE, !.timer = "none"]
            /\ lastEvent' = "done"
            /\ UNCHANGED <<harness, now, vocab, profile, screen, session,
                           sentenceSession, memo, timers, answered,
                           reviewsAtStart>>

\* QuizScreen.handleNext, the "Got It / Next Card" button.
QuizNext ==
    /\ QuizShown
    /\ quiz.showNextButton
    /\ quiz.selected # NoWord
    /\ quiz.selected # QuizKey(screen, session)
    /\ HandleCardComplete(QuizKey(screen, session), 1, isPracticeMode(screen))

\* onSkip passing the passing grade 3 instead of 1.
QuizSkip_AsGood ==
    /\ QuizShown
    /\ CanGrade
    /\ quiz.selected = NoWord
    /\ ~quiz.showNextButton
    /\ HandleCardComplete(QuizKey(screen, session), 3, isPracticeMode(screen))

\* onSkip with the "Skip" button never disabled.
QuizSkip_AlwaysEnabled ==
    /\ QuizShown
    /\ CanGrade
    /\ HandleCardComplete(QuizKey(screen, session), 1, isPracticeMode(screen))

\* onSkip, the "Skip" button.
QuizSkip ==
    /\ QuizShown
    /\ CanGrade
    /\ quiz.selected = NoWord
    /\ ~quiz.showNextButton
    /\ HandleCardComplete(QuizKey(screen, session), 1, isPracticeMode(screen))

\* SentenceQuizScreen: "Next Sentence" after an evaluation, or "Skip".
SentenceAdvance ==
    /\ Alive
    /\ isSentenceQuiz(screen, sentenceSession)
    /\ Len(timers) < MaxTimers
    /\ HandleSentenceComplete

\* The oldest pending end-of-session timeout fires.
TimerFires ==
    /\ timers # <<>>
    /\ timers' = Tail(timers)
    /\ IF ~Alive
       THEN /\ lastEvent' = "done"
            /\ UNCHANGED <<harness, now, vocab, profile, screen, session,
                           sentenceSession, memo, quiz, answered, reviewsAtStart>>
       ELSE IF Head(timers).kind = "endSession"
            THEN EndSession(Head(timers).category)
            ELSE EndSentenceSession(Head(timers).category)

\* Time passes.
Tick ==
    /\ now < MaxNow
    /\ now' = now + 1
    /\ lastEvent' = "done"
    /\ UNCHANGED <<harness, vocab, profile, screen, session, sentenceSession,
                   memo, timers, quiz, answered, reviewsAtStart>>

\* The application after its first render, with nothing stored.
Init ==
    /\ card = FreshCard(1)
    /\ prevCard = FreshCard(1)
    /\ grades = <<>>
    /\ now = 0
    /\ vocab = VOCAB
    /\ state = defaultAppState
    /\ screen = [key |-> "home", category |-> ""]
    /\ session = Null
    /\ sentenceSession = Null
    /\ \E rnd \in RandStreams : memo = allCategoryStats(VOCAB, state.srs, 0, rnd)
    /\ timers = <<>>
    /\ quiz = InitialQuiz
    /\ lastEvent = "init"
    /\ answered = 0
    /\ reviewsAtStart = 0
    /\ randomCard = NoWord
    /\ choices = NoChoices
    /\ stored = state
    /\ storageFull = FALSE
    /\ sentenceQuiz = NoSentenceQuiz

Next ==
    \/ UINavigate
    \/ UIEndSession
    \/ UIStartSession
    \/ UIStartFullReviewSession
    \/ UIStartSentencePractice
    \/ UISetSessionSize
    \/ QuizSelect
    \/ QuizTimeout
    \/ QuizNext
    \/ QuizSkip
    \/ SentenceAdvance
    \/ TimerFires
    \/ Tick

Spec == Init /\ [][Next]_vars

(********************** duplicate answer events ****************************)
MaxStale == 1       \* duplicate events delivered to one completed session

\* The answer event of the last card is delivered once more, to the session
\* it has completed (a duplicate or stale UI event).
StaleCardComplete ==
    \E quality \in {1, 3} :
        /\ Alive
        /\ session # Null
        /\ ~session.active
        /\ session.index < session.totalCards + MaxStale
        /\ state.totalReviews < MaxReviews + MaxStale
        /\ HandleCardComplete(session.studyQueue[session.totalCards], quality,
                              isPracticeMode(screen))

NextStale == Next \/ StaleCardComplete

SpecStale == Init /\ [][NextStale]_vars

(********************** queue builder harness ******************************)
QueueNow == 6       \* the clock while the queues are built
MaxSeed == 0        \* seeds of the stored review times
DueCounts == {0, 3, 10}         \* due words of category "a"
NewCounts == {0, 4, 20}         \* new words of category "a"
LearnedCounts == {1}            \* reviewed words of category "a" that are not due

\* When word i was last graded, in a stored profile with due words.
GradeTime(i, seed) == (i * (seed + 3)) % 5

\* A catalog of category "a" between a first and a last word of category "b".
ProfileVocab(n) ==
    [i \in 1..n |-> [id |-> i, category |-> IF i = 1 \/ i = n THEN "b" ELSE "a"]]

\* The profile loadAppState() returns after earlier sessions: word 1 and the
\* next nDue words were graded once at least a day ago, the next nLearned
\* words just now, the others never.
ProfileState(nDue, nLearned, seed, sessionSize) ==
    LET reviewed == 1..(1 + nDue + nLearned)
        quality(i) == IF i % 2 = 0 THEN 3 ELSE 1
    IN  [srs |-> [i \in reviewed |->
                    calculateSM2(FreshCard(i), quality(i),
                                 IF i <= 1 + nDue THEN GradeTime(i, seed)
                                 ELSE QueueNow)],
         totalReviews |-> Cardinality(reviewed),
         correctReviews |-> Cardinality({i \in reviewed : quality(i) >= 3}),
         sessionSize |-> sessionSize]

\* The application after its first render, with a stored profile.
InitQueue ==
    /\ card = FreshCard(1)
    /\ prevCard = FreshCard(1)
    /\ grades = <<>>
    /\ now = QueueNow
    /\ \E nDue \in DueCounts, nNew \in NewCounts, nLearned \in LearnedCounts,
          seed \in 0..MaxSeed, sessionSize \in SessionSizes :
          /\ vocab = ProfileVocab(nDue + nNew + nLearned + 2)
          /\ state = ProfileState(nDue, nLearned, seed, sessionSize)
    /\ screen = [key |-> "home", category |-> ""]
    /\ session = Null
    /\ sentenceSession = Null
    /\ \E rnd \in QueueStreams : memo = allCategoryStats(vocab, state.srs, now, rnd)
    /\ timers = <<>>
    /\ quiz = InitialQuiz
    /\ lastEvent = "init"
    /\ answered = 0
    /\ reviewsAtStart = 0
    /\ randomCard = NoWord
    /\ choices = NoChoices
    /\ stored = state
    /\ storageFull = FALSE
    /\ sentenceQuiz = NoSentenceQuiz

\* Time passes while the application stays open.
TickQueue ==
    /\ now < QueueNow + DayMs
    /\ now' = now + 1
    /\ lastEvent' = "done"
    /\ UNCHANGED <<harness, vocab, profile, screen, session, sentenceSession,
                   memo, timers, quiz, answered, reviewsAtStart>>

NextQueue ==
    \/ UINavigate
    \/ UIStartSession
    \/ UIStartFullReviewSession
    \/ UISetSessionSize
    \/ TickQueue

SpecQueue == InitQueue /\ [][NextQueue]_vars

(************************ SM-2 harness *************************************)
\* A fresh record and no grade applied yet; the application stays idle.
InitSM2 == Init

app == <<vocab, profile, screen, session, sentenceSession, memo, timers, quiz,
         lastEvent, answered, reviewsAtStart, screens>>

\* One grade is applied to the record, as handleCardComplete applies it.
ApplyGrade ==
    \E quality \in Qualities :
        /\ Len(grades) < MaxGrades
        /\ prevCard' = calculateSM2Argument(card, quality, now)
        /\ card' = calculateSM2(card, quality, now)
        /\ grades' = Append(grades, quality)
        /\ UNCHANGED <<now, app>>

\* Time passes between two gradings.
TickSM2 ==
    /\ now < MaxNow
    /\ now' = now + 1
    /\ UNCHANGED <<harness, app>>

NextSM2 == ApplyGrade \/ TickSM2

SpecSM2 == InitSM2 /\ [][NextSM2]_vars

\* The record is graded at one time: the clock moves before the first grade
\* only.
TickBefore == grades = <<>> /\ TickSM2

NextGrades == ApplyGrade \/ TickBefore

SpecGrades == InitSM2 /\ [][NextGrades]_vars

LastGrade == IF grades = <<>> THEN 0 ELSE grades[Len(grades)]

\* C1: after every update of a record grown from the fresh record by any
\* sequence of grades, the ease is at least 1.3 (the double of that literal).
C1_EaseFloor ==
    grades # <<>> =>
        /\ card.ease >= EASE_FLOOR
        /\ MathMax(EaseFloor, Ease(card)) = Ease(card)

\* Seven lapses in a row: 2.5 - 7 * 0.2 would be 1.1 without the floor.
C1_Witness == Len(grades) = 7 /\ card.lapses = 7 /\ card.ease = EASE_FLOOR

\* C2: the failing grade (quality 1) returns reps 0, interval 1, one more
\* lapse and ease max(1.3, old ease - 0.2), whatever the prior record.
C2_FailureResets ==
    LastGrade = 1 =>
        /\ card.reps = 0
        /\ card.interval = 1
        /\ card.lapses = prevCard.lapses + 1
        /\ card.ease = Max(EASE_FLOOR, prevCard.ease - 20)
        /\ Ease(card) = MathMax(EaseFloor, FlSub(Ease(prevCard), EasePenalty))

\* Again after at least two successes, from an interval above one day.
C2_Witness == LastGrade = 1 /\ prevCard.reps >= 2 /\ prevCard.interval > 1

\* C3: a success grade increments reps and sets the interval to 1, 6 or
\* round(old interval * updated ease) by the new reps; Good three times on a
\* fresh record gives (1, 1), (2, 6) and (3, ease 2.8, 17).
C3_SuccessIntervals ==
    /\ LastGrade >= 3 =>
          /\ card.reps = prevCard.reps + 1
          /\ card.reps = 1 => card.interval = 1
          /\ card.reps = 2 => card.interval = 6
          /\ card.reps >= 3 =>
                card.interval = MathRound(FlMul(prevCard.interval, Ease(card)))
    /\ grades = <<3>> => card.reps = 1 /\ card.interval = 1
    /\ grades = <<3, 3>> => card.reps = 2 /\ card.interval = 6
    /\ grades = <<3, 3, 3>> =>
          card.reps = 3 /\ card.ease = 280 /\ card.interval = 17

\* Good three times on the fresh record.
C3_Witness == grades = <<3, 3, 3>> /\ card.reps = 3

\* C4: on a record reachable from the fresh one, a success grade never
\* yields an interval below the one the record had before.
C4_IntervalMonotone == LastGrade >= 3 => card.interval >= prevCard.interval

\* A success right after a lapse that followed a grown interval.
C4_Witness ==
    /\ Len(grades) >= 4
    /\ LastGrade >= 3
    /\ grades[Len(grades) - 1] <= 2
    /\ grades[Len(grades) - 2] >= 3
    /\ grades[Len(grades) - 3] >= 3

(*********************** session state machine *****************************)
\* C5: a session of N cards is Completed (active = false, index = N) after
\* exactly N answers or skips, and is still active after fewer.
C5_SessionExhaustion ==
    session # Null =>
        /\ session.totalCards = Len(session.studyQueue)
        /\ answered < session.totalCards => session.active
        /\ answered = session.totalCards =>
              ~session.active /\ session.index = session.totalCards

\* Both cards of a two-card session answered.
C5_Witness ==
    /\ session # Null
    /\ session.totalCards = 2
    /\ answered = 2
    /\ ~session.active

\* C6: handleCardComplete on a Completed session is a no-op: the index
\* never exceeds totalCards and no grade is applied beyond the queue.
C6_CompletedIsNoOp ==
    session # Null =>
        /\ session.index <= session.totalCards
        /\ state.totalReviews - reviewsAtStart <= session.totalCards

IsRefusal(event) ==
    event \in {"startSession:empty", "startFullReviewSession:empty",
               "startSentencePractice:empty"}

\* C7: a start handler that builds an empty queue changes neither the
\* sessions, nor the screen, nor the profile, and no session is ever created
\* with an empty queue.
C7_EmptyQueueGuard ==
    [][/\ IsRefusal(lastEvent') =>
            UNCHANGED <<session, sentenceSession, screen, state>>
       /\ (session' # session /\ session' # Null) =>
            session'.studyQueue # <<>> /\ session'.totalCards >= 1
       /\ (sentenceSession' # sentenceSession /\ sentenceSession' # Null) =>
            sentenceSession'.queue # <<>>]_vars

\* startSession refused a category whose words are all learned and not due.
C7_Witness ==
    /\ lastEvent = "startSession:empty"
    /\ session = Null
    /\ screen.key = "categories"
    /\ DOMAIN state.srs = WordIds(vocab)

\* C8: every answer or skip on an active session applies exactly one SM-2
\* update to the current card and advances the index by one, so the grades
\* applied since the session began always equal its index.
C8_OneGradePerAnswer ==
    /\ [](session # Null => state.totalReviews - reviewsAtStart = session.index)
    /\ [][(session # Null /\ answered' = answered + 1) =>
            LET w == currentCard(session)
                old == IF HasRecord(state.srs, w) THEN state.srs[w] ELSE FreshCard(w)
            IN  /\ w # NoWord
                /\ session'.index = session.index + 1
                /\ state'.totalReviews = state.totalReviews + 1
                /\ DOMAIN state'.srs = DOMAIN state.srs \cup {w}
                /\ \A id \in DOMAIN state.srs \ {w} : state'.srs[id] = state.srs[id]
                /\ \E quality \in {1, 3} :
                      state'.srs[w] = calculateSM2(old, quality, now)]_vars

\* Two cards graded in one session, each holding its updated record.
C8_Witness ==
    /\ session # Null
    /\ session.index = 2
    /\ state.totalReviews = reviewsAtStart + 2
    /\ \A id \in Range(session.studyQueue) : state.srs[id].lastReviewed # Undefined

(***************************** queue builder *******************************)
CategorySession == session # Null /\ session.sessionCategory # FULL_REVIEW_ID
InQueue == Range(session.studyQueue)
CategoryWords == WordsOf(vocab, session.sessionCategory)
\* The words of the category that allCategoryStats lists as due and as new.
StatsDue == Range(memo.stats[session.sessionCategory].reviewQueue)
StatsNew == Range(memo.stats[session.sessionCategory].newQueue)
Limit == SessionLimit(vocab, state.sessionSize)

\* C9 as claimed: up to min(5, session size) new cards first, the due cards
\* filling what is left; 10 due and 20 new with size 10 give 5 and 5.
C9_NewCardsFirst ==
    CategorySession =>
        LET newTaken == Cardinality(InQueue \cap StatsNew)
            dueTaken == Cardinality(InQueue \cap StatsDue)
        IN  /\ newTaken = Min(Min(MAX_NEW_CARDS_TO_LEARN, Limit),
                              Cardinality(StatsNew))
            /\ dueTaken = Min(Cardinality(StatsDue), Limit - newTaken)
            /\ (Cardinality(StatsDue) = 10 /\ Cardinality(StatsNew) = 20
                    /\ state.sessionSize = 10) =>
                  newTaken = 5 /\ dueTaken = 5

\* C9 as amended: the due cards of allCategoryStats first, oldest due first,
\* up to the session size; then up to min(5, budget left) new cards; 10 due
\* and 20 new with size 10 give 10 due cards and no new one.
C9_ReviewsFirst ==
    CategorySession =>
        LET newTaken == Cardinality(InQueue \cap StatsNew)
            dueTaken == Cardinality(InQueue \cap StatsDue)
        IN  /\ memo.today = now =>
                  StatsDue = DueIds(vocab, state.srs, now) \cap CategoryWords
            /\ StatsNew = NewIds(vocab, state.srs) \cap CategoryWords
            /\ dueTaken = Min(Cardinality(StatsDue), Limit)
            /\ newTaken = Min(Min(Cardinality(StatsNew), Limit - dueTaken),
                              MAX_NEW_CARDS_TO_LEARN)
            /\ \A x \in StatsDue \ InQueue : \A y \in StatsDue \cap InQueue :
                  state.srs[y].due <= state.srs[x].due
            /\ (Cardinality(StatsDue) = 10 /\ Cardinality(StatsNew) = 20
                    /\ state.sessionSize = 10) =>
                  newTaken = 0 /\ dueTaken = 10

\* 10 due and 20 new words, session size 10: a queue of the 10 due words.
C9_Witness ==
    /\ CategorySession
    /\ Cardinality(StatsDue) = 10
    /\ Cardinality(StatsNew) = 20
    /\ state.sessionSize = 10
    /\ Cardinality(InQueue \cap StatsDue) = 10

\* C10: the queue of startSession is no longer than the session limit, holds
\* at most 5 new words, only words of the category that are new or due, and
\* no word twice; 3 due and 20 new with size 10 give 5 new and 3 due.
C10_QueueBounds ==
    CategorySession =>
        LET new == NewIds(vocab, state.srs) \cap CategoryWords
            due == DueIds(vocab, state.srs, now) \cap CategoryWords
        IN  /\ Len(session.studyQueue) <= Limit
            /\ Cardinality(InQueue \cap new) <= MAX_NEW_CARDS_TO_LEARN
            /\ InQueue \subseteq new \cup due
            /\ Cardinality(InQueue) = Len(session.studyQueue)
            /\ (Cardinality(StatsDue) = 3 /\ Cardinality(StatsNew) = 20
                    /\ state.sessionSize = 10) =>
                  /\ Cardinality(InQueue \cap new) = 5
                  /\ Cardinality(InQueue \cap due) = 3

\* 3 due and 20 new words, session size 10: 5 new and 3 due words queued.
C10_Witness ==
    /\ CategorySession
    /\ Cardinality(StatsDue) = 3
    /\ Cardinality(StatsNew) = 20
    /\ state.sessionSize = 10
    /\ Len(session.studyQueue) = 8
    /\ Cardinality(InQueue \cap StatsNew) = 5

\* C11: when startSession cannot take every due word of the category, it
\* takes those with the smallest due times: no due word left out is due
\* earlier than a due word of the queue.
C11_OldestDueFirst ==
    CategorySession =>
        \A x \in StatsDue \ InQueue : \A y \in StatsDue \cap InQueue :
            state.srs[y].due <= state.srs[x].due

\* Ten due words and a session of five: a word left out is due later than a
\* word taken, and stands before it in the catalog.
C11_Witness ==
    /\ CategorySession
    /\ Cardinality(StatsDue) = 10
    /\ Len(session.studyQueue) = 5
    /\ InQueue \subseteq StatsDue
    /\ \E x \in StatsDue \ InQueue : \E y \in InQueue :
          state.srs[y].due < state.srs[x].due /\ x < y

\* C12: a navigation to a screen other than review and practice sets the
\* vocabulary session to null, one to a screen other than practice-sentences
\* sets the sentence session to null, and no navigation changes the profile;
\* so a session only exists on its own screen.
C12_NavigateClears ==
    /\ [](session # Null => screen.key \in {"review", "practice"})
    /\ [](sentenceSession # Null => screen.key = "practice-sentences")
    /\ [][screen' # screen =>
            /\ screen'.key \notin {"review", "practice"} => session' = Null
            /\ screen'.key # "practice-sentences" => sentenceSession' = Null
            /\ state' = state]_vars

\* Home, with no session left, after one answer only: the two-card session
\* that answer belonged to was still active when the user navigated away.
C12_Witness ==
    /\ screen.key = "home"
    /\ session = Null
    /\ sentenceSession = Null
    /\ state.totalReviews = 1
    /\ timers = <<>>

\* C13: the end-of-session timeout of a completed session does nothing to a
\* session started before it fires: when it fires while a session is active,
\* the sessions and the screen stay as they are.
C13_StaleTimerHarmless ==
    [][(/\ timers # <<>>
        /\ timers' = Tail(timers)
        /\ \/ session # Null /\ session.active
           \/ sentenceSession # Null /\ sentenceSession.active)
       => /\ session' = session
          /\ sentenceSession' = sentenceSession
          /\ screen' = screen]_vars

\* C14: the vocabulary session and the sentence session are never both
\* non-null.
C14_OneSessionAtMost == session = Null \/ sentenceSession = Null

\* A sentence session running after a vocabulary session was begun and left.
C14_Witness ==
    /\ sentenceSession # Null
    /\ sentenceSession.active
    /\ session = Null
    /\ state.totalReviews >= 1

\* C15: a vocabulary session has totalCards = queue length >= 1, index >= 0
\* and, while active, index < totalCards; currentCard is queue[index] when
\* the session is active and null otherwise; a session starts with index 0
\* and active.
C15_SessionShape ==
    /\ [](session # Null =>
            /\ session.totalCards = Len(session.studyQueue)
            /\ session.totalCards >= 1
            /\ session.index >= 0
            /\ session.active => session.index < session.totalCards
            /\ currentCard(session) =
                  IF session.active THEN session.studyQueue[session.index + 1]
                  ELSE NoWord)
    /\ [][(session = Null /\ session' # Null) =>
            session'.index = 0 /\ session'.active]_vars

\* The second card of an active session is the current card.
C15_Witness ==
    /\ session # Null
    /\ session.active
    /\ session.index = 1
    /\ currentCard(session) = session.studyQueue[2]

\* C16: while a session lasts, its queue (contents and order) and totalCards
\* never change and its index never decreases.
C16_ForwardOnly ==
    [][/\ (session # Null /\ session' # Null) =>
            /\ session'.studyQueue = session.studyQueue
            /\ session'.totalCards = session.totalCards
            /\ session'.index >= session.index
       /\ (sentenceSession # Null /\ sentenceSession' # Null) =>
            /\ sentenceSession'.queue = sentenceSession.queue
            /\ sentenceSession'.totalCards = sentenceSession.totalCards
            /\ sentenceSession'.index >= sentenceSession.index]_vars

\* A two-card session after its first answer, its queue still whole.
C16_Witness ==
    /\ session # Null
    /\ answered = 1
    /\ session.index = 1
    /\ Len(session.studyQueue) = 2
    /\ session.studyQueue[1] # session.studyQueue[2]

\* C17: every answer or skip on an active vocabulary session moves index by
\* exactly one whatever the grade; a skip (the only answer event possible
\* while nothing is selected) grades the current card with quality 1: reps
\* 0, one more lapse, one more review counted, no more correct review.
C17_SkipIsFailure ==
    [][(session # Null /\ answered' = answered + 1) =>
          LET w == currentCard(session)
              old == IF HasRecord(state.srs, w) THEN state.srs[w] ELSE FreshCard(w)
          IN  /\ session.active
              /\ session'.index = session.index + 1
              /\ quiz.selected = NoWord =>
                    /\ state'.srs[w].reps = 0
                    /\ state'.srs[w].lapses = old.lapses + 1
                    /\ state'.srs[w] = calculateSM2(old, 1, now)
                    /\ state'.totalReviews = state.totalReviews + 1
                    /\ state'.correctReviews = state.correctReviews]_vars

\* The only word reviewed so far was answered correctly once and then failed
\* in a later session: its streak is reset, one of two reviews is correct.
C17_Witness ==
    /\ session # Null
    /\ session.index = 1
    /\ answered = 1
    /\ state.totalReviews = 2
    /\ state.correctReviews = 1
    /\ \E w \in DOMAIN state.srs :
          /\ DOMAIN state.srs = {w}
          /\ state.srs[w].reps = 0
          /\ state.srs[w].lapses = 1

\* C18: only quality 1 is a failure for calculateSM2; quality 2 is a success
\* tier: reps + 1, lapses unchanged, ease lowered by less than 0.2.
C18_HardIsSuccess ==
    /\ LastGrade = 2 =>
          /\ card.reps = prevCard.reps + 1
          /\ card.lapses = prevCard.lapses
          /\ card.ease <= prevCard.ease
          /\ card.ease > prevCard.ease - 20
    /\ (LastGrade >= 2) = (grades # <<>> /\ card.lapses = prevCard.lapses)

\* C19: after every update the strength is max(0, 100 - 15 * lapses) of the
\* updated record, hence within 0..100, and it is the same whatever strength
\* the input record carried (the 100 or the 0 of a never-reviewed word).
C19_StrengthFromLapses ==
    /\ grades # <<>> =>
          /\ card.strength = Max(0, 100 - 15 * card.lapses)
          /\ card.strength \in 0..100
    /\ \A quality \in Qualities :
          LET next == calculateSM2(card, quality, now)
          IN  \A strength \in {0, 100} :
                 calculateSM2([card EXCEPT !.strength = strength],
                              quality, now).strength
                     = Max(0, 100 - 15 * next.lapses)

\* Seven lapses: 100 - 105 is floored at 0.
C19_Witness ==
    /\ grades # <<>>
    /\ card.lapses = 7
    /\ prevCard.strength = 10
    /\ card.strength = 0

\* C20: whatever the user does, a record of srs, once created, is never
\* removed and its lapses never decrease.
C20_RecordsKept ==
    [][\A id \in DOMAIN state.srs :
          /\ id \in DOMAIN state'.srs
          /\ state'.srs[id].lapses >= state.srs[id].lapses]_vars

\* Two records, the first kept when the second was created, one with a lapse.
C20_Witness ==
    /\ Cardinality(DOMAIN state.srs) = 2
    /\ state.totalReviews = 2
    /\ \E id \in DOMAIN state.srs : state.srs[id].lapses = 1

\* C21: a grading at time now returns lastReviewed = now and
\* due = now + interval * one day, with the interval the same call computed.
C21_DueFromInterval ==
    [][grades' # grades =>
          /\ card'.lastReviewed = now
          /\ card'.due = now + card'.interval * DayMs]_vars

\* A second success graded after the clock advanced: interval 6, due six
\* days after the grading.
C21_Witness ==
    /\ grades # <<>>
    /\ now >= 1
    /\ card.lastReviewed = now
    /\ prevCard.interval = 1
    /\ card.interval = 6
    /\ card.due = now + 6 * DayMs

\* The times a record is graded at in the comparison of C22: the clock
\* values, and two times after the record fell due.
GradingTimes == 0..MaxNow \cup {card.due + DayMs, card.due + 30 * DayMs}

C23_Counters ==
    /\ [](0 <= state.correctReviews /\ state.correctReviews <= state.totalReviews)
    /\ [][/\ state'.totalReviews >= state.totalReviews
          /\ state'.correctReviews >= state.correctReviews
          /\ (session # Null /\ answered' = answered + 1) =>
                /\ state'.totalReviews = state.totalReviews + 1
                /\ state'.correctReviews =
                      state.correctReviews + (IF quiz.timer = "correct" THEN 1 ELSE 0)
                /\ (quiz.timer = "correct") =
                      (state'.srs[currentCard(session)].reps >= 1)]_vars

\* Two graded answers, one of them correct.
C23_Witness ==
    /\ state.totalReviews = 2
    /\ state.correctReviews = 1
    /\ Cardinality(DOMAIN state.srs) = 2

(************ practice (quiz) mode of the earlier revisions ****************)
\* src/unnamed/part_001; src/unnamed/part_000 has the same handler and the
\* same practice screen.  calculateSM2, shuffle and generateChoices of these
\* revisions are those of src/src/App.tsx.

\* The record handleCardComplete grades when the word has none.
PracticeFreshCard(wordId) ==
    [id |-> wordId, reps |-> 0, lapses |-> 0, ease |-> 250, easeErr |-> 0,
     interval |-> 0,
     due |-> 0, lastReviewed |-> 0, strength |-> 0]

\* handleCardComplete step 1 (setState): it runs whatever isPractice is.
PracticeGradeState(s, wordId, quality, today) ==
    LET oldCard == IF HasRecord(s.srs, wordId) THEN s.srs[wordId]
                   ELSE PracticeFreshCard(wordId)
        newCardState == calculateSM2(oldCard, quality, today)
    IN  [s EXCEPT
            !.srs = [id \in DOMAIN s.srs \cup {wordId} |->
                        IF id = wordId THEN newCardState ELSE s.srs[id]],
            !.totalReviews = s.totalReviews + 1,
            !.correctReviews = s.correctReviews + (IF quality >= 3 THEN 1 ELSE 0)]

\* const randomCard = shuffle(practiceVocabPool)[0], drawn by every render
\* of the practice screen.
DrawRandomCard(v, rnd) == shuffle(FilterIds(v, Len(v), WordIds(v)), rnd, 0)[1]

\* The render of the practice screen after a step: a new card is drawn, and
\* QuizScreen (key = randomCard.id) keeps its state q when the draw repeats
\* the card.
PracticeRender(q) ==
    \E rnd \in RandStreams :
        /\ randomCard' = DrawRandomCard(vocab, rnd)
        /\ quiz' = IF randomCard' = randomCard THEN q ELSE InitialQuiz

\* handleCardComplete(randomCard.id, quality, _, true) of onAnswer: the
\* profile is graded; step 2 is skipped (session is null and isPractice).
\* Then setScreen({ key: "practice" }) renders the screen again.
PracticeAnswer(quality) ==
    /\ state' = PracticeGradeState(state, randomCard, quality, now)
    /\ stored' = saveAppState(state', stored, storageFull)
    /\ \E rnd \in RandStreams :
          memo' = allCategoryStats(vocab, state'.srs, now, rnd)
    /\ screen' = [key |-> "practice", category |-> NoCategory]
    /\ PracticeRender([quiz EXCEPT !.timer = "none"])
    /\ lastEvent' = "done"
    /\ UNCHANGED <<card, prevCard, grades, storageFull, choices, sentenceQuiz, now, vocab, session,
                   sentenceSession, timers, answered, reviewsAtStart>>

\* Home: "Quiz Mode (Practice)", navigate("practice").
PracticeOpen ==
    /\ screen.key = "home"
    /\ screen' = [key |-> "practice", category |-> screen.category]
    /\ \E rnd \in RandStreams : randomCard' = DrawRandomCard(vocab, rnd)
    /\ quiz' = InitialQuiz
    /\ lastEvent' = "done"
    /\ UNCHANGED <<card, prevCard, grades, storageFull, choices, sentenceQuiz, now, vocab, profile,
                   session, sentenceSession, memo, timers, answered,
                   reviewsAtStart>>

\* TopBar brand: onNavigate("home") leaves the practice screen.
PracticeHome ==
    /\ screen.key = "practice"
    /\ screen' = [key |-> "home", category |-> screen.category]
    /\ session' = Null
    /\ randomCard' = NoWord
    /\ quiz' = InitialQuiz
    /\ lastEvent' = "done"
    /\ UNCHANGED <<card, prevCard, grades, storageFull, choices, sentenceQuiz, now, vocab, profile,
                   sentenceSession, memo, timers, answered, reviewsAtStart>>

\* QuizScreen.handleSelect(choice) on the practice screen.
PracticeSelect ==
    \E rnd \in RandStreams :
        \E choice \in Range(generateChoices(randomCard, vocab, rnd)) :
            /\ screen.key = "practice"
            /\ state.totalReviews < MaxReviews
            /\ quiz.selected = NoWord
            /\ quiz' = [selected |-> choice, showNextButton |-> FALSE,
                        timer |-> IF choice = randomCard
                                  THEN "correct" ELSE "wrong"]
            /\ lastEvent' = "done"
            /\ UNCHANGED <<harness, now, vocab, profile, screen, session,
                           sentenceSession, memo, timers, answered,
                           reviewsAtStart>>

\* The ANSWER_DELAY_MS timeout of handleSelect fires: onAnswer(3) after a
\* correct choice, the "Got It / Next Card" button after a wrong one.
PracticeTimeout ==
    /\ screen.key = "practice"
    /\ quiz.timer # "none"
    /\ IF quiz.timer = "correct"
       THEN PracticeAnswer(3)
       ELSE /\ quiz' = [quiz EXCEPT !.showNextButton = TRUE, !.timer = "none"]
            /\ lastEvent' = "done"
            /\ UNCHANGED <<harness, now, vocab, profile, screen, session,
                           sentenceSession, memo, timers, answered,
                           reviewsAtStart>>

\* QuizScreen.handleNext on the practice screen: onAnswer(1).  The button
\* stays up when the next draw repeats the card.
PracticeNext ==
    /\ screen.key = "practice"
    /\ state.totalReviews < MaxReviews
    /\ quiz.showNextButton
    /\ quiz.selected # NoWord
    /\ quiz.selected # randomCard
    /\ PracticeAnswer(1)

\* onSkip, the "Next Random" button: setScreen({ key: "practice" }) only.
PracticeSkip ==
    /\ screen.key = "practice"
    /\ quiz.selected = NoWord
    /\ ~quiz.showNextButton
    /\ screen' = [key |-> "practice", category |-> NoCategory]
    /\ PracticeRender(quiz)
    /\ lastEvent' = "done"
    /\ UNCHANGED <<card, prevCard, grades, storageFull, choices, sentenceQuiz, now, vocab, profile,
                   session, sentenceSession, memo, timers, answered,
                   reviewsAtStart>>

NextPractice ==
    \/ PracticeOpen
    \/ PracticeHome
    \/ PracticeSelect
    \/ PracticeTimeout
    \/ PracticeNext
    \/ PracticeSkip
    \/ Tick

SpecPractice == Init /\ [][NextPractice]_vars

\* C24: in the revisions with a practice mode, a step taken on the practice
\* screen (an answer included) leaves the srs records and the counters
\* totalReviews and correctReviews as they were.
C24_PracticeLeavesProfile ==
    [][screen.key = "practice" =>
          /\ state'.srs = state.srs
          /\ state'.totalReviews = state.totalReviews
          /\ state'.correctReviews = state.correctReviews]_vars

(************************* catch-up queue **********************************)
\* A step of startFullReviewSession that starts a session.
CatchUpStarts ==
    /\ session' # session
    /\ session' # Null
    /\ session'.sessionCategory = FULL_REVIEW_ID
    /\ session'.index = 0

\* C25: the catch-up queue built by startFullReviewSession holds every
\* catalog item whose record has due <= now, whatever the session size.
C25_AllDueInQueue ==
    [][CatchUpStarts =>
          DueIds(vocab, state.srs, now) \subseteq Range(session'.studyQueue)]_vars

\* The stored profiles the catch-up queues are built from.
ReviewedCounts == {0, 4, 22}    \* words with a record
UnseenCounts == {1, 3, 7}       \* words without a record

\* calculateSM2 applied n times with the same quality at the same time.
RECURSIVE Regrade(_, _, _, _)
Regrade(c, quality, n, today) ==
    IF n = 0 THEN c
    ELSE Regrade(calculateSM2(c, quality, today), quality, n - 1, today)

\* How often word i was failed in the stored profile.
ProfileLapses(i) == i % 5

\* The failed answers of words 1..n.
RECURSIVE ProfileFailures(_)
ProfileFailures(n) ==
    IF n = 0 THEN 0 ELSE ProfileLapses(n) + ProfileFailures(n - 1)

\* The profile loadAppState() returns after earlier sessions: word i was
\* failed ProfileLapses(i) times and then passed once, the odd words at
\* time 0 (they are due), the even words just now (they are not).
CatchUpState(nReviewed, sessionSize) ==
    LET reviewed == 1..nReviewed
        at(i) == IF i % 2 = 1 THEN 0 ELSE QueueNow
    IN  [srs |-> [i \in reviewed |->
                    calculateSM2(Regrade(FreshCard(i), 1, ProfileLapses(i), at(i)),
                                 3, at(i))],
         totalReviews |-> nReviewed + ProfileFailures(nReviewed),
         correctReviews |-> nReviewed,
         sessionSize |-> sessionSize]

\* The application after its first render, with such a profile.
InitCatchUp ==
    /\ card = FreshCard(1)
    /\ prevCard = FreshCard(1)
    /\ grades = <<>>
    /\ now = QueueNow
    /\ \E nReviewed \in ReviewedCounts, nNew \in UnseenCounts,
          sessionSize \in SessionSizes :
          /\ vocab = ProfileVocab(nReviewed + nNew)
          /\ state = CatchUpState(nReviewed, sessionSize)
    /\ screen = [key |-> "home", category |-> ""]
    /\ session = Null
    /\ sentenceSession = Null
    /\ \E rnd \in RandStreams : memo = allCategoryStats(vocab, state.srs, now, rnd)
    /\ timers = <<>>
    /\ quiz = InitialQuiz
    /\ lastEvent = "init"
    /\ answered = 0
    /\ reviewsAtStart = 0
    /\ randomCard = NoWord
    /\ choices = NoChoices
    /\ stored = state
    /\ storageFull = FALSE
    /\ sentenceQuiz = NoSentenceQuiz

NextCatchUp ==
    \/ UINavigate
    \/ UIStartFullReviewSession
    \/ UISetSessionSize
    \/ TickQueue

SpecCatchUp == InitCatchUp /\ [][NextCatchUp]_vars

\* The weak items of startFullReviewSession and its session limit.
WeakIds == {id \in WordIds(vocab) :
               HasRecord(state.srs, id) /\ state.srs[id].strength < WEAK_STRENGTH}
CatchUpLimit ==
    IF state.sessionSize = Unlimited THEN Cardinality(DOMAIN state.srs)
    ELSE Min(state.sessionSize, Cardinality(DOMAIN state.srs))

\* C26: when there are more weak items than the session limit, the catch-up
\* queue consists of the weakest ones: no weak item left out of the queue
\* has a lower strength than a weak item in the queue.
C26_WeakestChosen ==
    [][(CatchUpStarts /\ Cardinality(WeakIds) > CatchUpLimit) =>
          \A left \in WeakIds \ Range(session'.studyQueue) :
              \A kept \in WeakIds \cap Range(session'.studyQueue) :
                  state.srs[left].strength >= state.srs[kept].strength]_vars

(*********** prioritized review of the earlier revision ********************)
\* src/unnamed/part_001: startFullReviewSession, navigate and the settings
\* screen of that revision.

WEAK_CARD_BATCH_SIZE == 20

\* The study queue of startFullReviewSession with the reviewed cards sorted
\* by ascending lapses.
PrioritizedQueue_FewestLapses(v, srs, today, rnd) ==
    LET dueCards == FilterIds(v, Len(v), DueIds(v, srs, today))
        newCards == FilterIds(v, Len(v), NewIds(v, srs))
        learnedCards == FilterIds(v, Len(v),
                            WordIds(v) \ (DueIds(v, srs, today) \cup NewIds(v, srs)))
        reviewed == dueCards \o learnedCards
        allReviewedCards ==
            SortByKey(reviewed, [id \in Range(reviewed) |-> srs[id].lapses])
        weakestBatch == Slice(allReviewedCards, WEAK_CARD_BATCH_SIZE)
        n == Len(dueCards)
        w == Len(weakestBatch)
        studyQueue ==
            shuffle(dueCards, rnd, 0)
            \o shuffle(weakestBatch, rnd, n)
            \o shuffle(weakestBatch, rnd, n + w)
            \o shuffle(weakestBatch, rnd, n + 2 * w)
            \o Slice(shuffle(newCards, rnd, n + 3 * w), MAX_NEW_CARDS_TO_LEARN)
    IN  shuffle(studyQueue, rnd, n + 3 * w + Len(newCards))

\* The study queue of startFullReviewSession: the due cards, the weakest
\* batch WEAK_CARD_MULTIPLIER times, a batch of new cards, all shuffled.
PrioritizedQueue(v, srs, today, rnd) ==
    LET dueCards == FilterIds(v, Len(v), DueIds(v, srs, today))
        newCards == FilterIds(v, Len(v), NewIds(v, srs))
        learnedCards == FilterIds(v, Len(v),
                            WordIds(v) \ (DueIds(v, srs, today) \cup NewIds(v, srs)))
        reviewed == dueCards \o learnedCards
        \* lapsesB - lapsesA: highest lapses first
        allReviewedCards ==
            SortByKey(reviewed, [id \in Range(reviewed) |-> 0 - srs[id].lapses])
        weakestBatch == Slice(allReviewedCards, WEAK_CARD_BATCH_SIZE)
        n == Len(dueCards)
        w == Len(weakestBatch)
        studyQueue ==
            shuffle(dueCards, rnd, 0)
            \o shuffle(weakestBatch, rnd, n)
            \o shuffle(weakestBatch, rnd, n + w)
            \o shuffle(weakestBatch, rnd, n + 2 * w)
            \o Slice(shuffle(newCards, rnd, n + 3 * w), MAX_NEW_CARDS_TO_LEARN)
    IN  shuffle(studyQueue, rnd, n + 3 * w + Len(newCards))

\* startFullReviewSession of the revision, from the home screen.
RevisionStartFullReview ==
    \E rnd \in RandStreams :
        LET studyQueue == PrioritizedQueue(vocab, state.srs, now, rnd)
        IN  /\ screen.key = "home"
            /\ ~(totalDue = 0 /\ DOMAIN state.srs = {})
            /\ IF studyQueue = <<>>
               THEN /\ lastEvent' = "startFullReviewSession:empty"
                    /\ UNCHANGED <<screen, session>>
               ELSE /\ session' = [studyQueue |-> studyQueue, index |-> 0,
                                   active |-> TRUE,
                                   totalCards |-> Len(studyQueue),
                                   sessionCategory |-> FULL_REVIEW_ID]
                    /\ screen' = [key |-> "review", category |-> FULL_REVIEW_ID]
                    /\ lastEvent' = "done"
            /\ UNCHANGED <<harness, now, vocab, profile, sentenceSession, memo,
                           timers, quiz, answered, reviewsAtStart>>

\* navigate(key) of the revision: the brand and Settings of the top bar and
\* the back buttons on every screen, Study of the top bar and "Go to
\* Categories to Study" while something is due or new, and "Browse
\* Categories" of the home screen. QuizScreen is unmounted.
RevisionNavigate ==
    \E key \in {"home", "settings", "categories"} :
        /\ key = "categories" => (totalDue > 0 \/ screen.key = "home")
        /\ screen' = [key |-> key, category |-> screen.category]
        /\ session' = Null
        /\ quiz' = InitialQuiz
        /\ randomCard' = NoWord
        /\ lastEvent' = "done"
        /\ UNCHANGED <<card, prevCard, grades, choices, sentenceQuiz,
                       storageFull, now, vocab, profile, sentenceSession, memo,
                       timers, answered, reviewsAtStart>>

\* startSession(categoryId) of the revision, the Study button of a category.
RevisionStartSession ==
    \E categoryId \in DOMAIN memo.stats, rnd \in RandStreams :
        LET categoryStats == memo.stats[categoryId]
            unlimited == state.sessionSize = Unlimited
            newCardsToLearn ==
                IF unlimited THEN MAX_NEW_CARDS_TO_LEARN
                ELSE Min(MAX_NEW_CARDS_TO_LEARN, state.sessionSize)
            newCards == Slice(categoryStats.newQueue, newCardsToLearn)
            reviewCards ==
                IF unlimited THEN categoryStats.reviewQueue
                ELSE Slice(categoryStats.reviewQueue,
                           state.sessionSize - Len(newCards))
            studyQueue == shuffle(newCards \o reviewCards, rnd, 0)
        IN  /\ screen.key = "categories"
            /\ Len(categoryStats.reviewQueue) + Len(categoryStats.newQueue) > 0
            /\ studyQueue # <<>>
            /\ session' = [studyQueue |-> studyQueue, index |-> 0,
                           active |-> TRUE, totalCards |-> Len(studyQueue),
                           sessionCategory |-> categoryId]
            /\ screen' = [key |-> "review", category |-> categoryId]
            /\ quiz' = InitialQuiz
            /\ lastEvent' = "done"
            /\ UNCHANGED <<harness, now, vocab, profile, sentenceSession, memo,
                           timers, answered, reviewsAtStart>>

\* The pool of the distractors on the review screen of the revision.
studyVocabPool ==
    IF session.sessionCategory = FULL_REVIEW_ID THEN vocab
    ELSE SelectSeq(vocab, LAMBDA w : w.category = session.sessionCategory)

\* handleCardComplete(studyCard.id, quality, isNewCard) of the revision: the
\* profile is graded, the session moves on (QuizScreen, key = session.index,
\* is mounted anew) and after the last card endSession is scheduled.
RevisionCardComplete(quality) ==
    LET newS == AdvanceSession(session)
    IN  /\ state' = PracticeGradeState(state, currentCard(session), quality, now)
        /\ stored' = saveAppState(state', stored, storageFull)
        /\ \E rnd \in RandStreams :
              memo' = allCategoryStats(vocab, state'.srs, now, rnd)
        /\ session' = newS
        /\ timers' = IF newS.index >= Len(newS.studyQueue)
                     THEN Append(timers, [kind |-> "endSession",
                                          category |-> screen.category])
                     ELSE timers
        /\ quiz' = InitialQuiz
        /\ lastEvent' = "done"
        /\ UNCHANGED <<harness, now, vocab, screen, sentenceSession, answered,
                       reviewsAtStart>>

\* QuizScreen.handleSelect(choice) on the review screen of the revision.
RevisionSelect ==
    \E rnd \in RandStreams :
        /\ screen.key = "review"
        /\ currentCard(session) # NoWord
        /\ CanGrade
        /\ quiz.selected = NoWord
        /\ \E choice \in Range(generateChoices(currentCard(session),
                                               studyVocabPool, rnd)) :
              quiz' = [selected |-> choice, showNextButton |-> FALSE,
                       timer |-> IF choice = currentCard(session)
                                 THEN "correct" ELSE "wrong"]
        /\ lastEvent' = "done"
        /\ UNCHANGED <<harness, now, vocab, profile, screen, session,
                       sentenceSession, memo, timers, answered, reviewsAtStart>>

\* The ANSWER_DELAY_MS timeout of handleSelect fires on the review screen.
RevisionTimeout ==
    /\ screen.key = "review"
    /\ currentCard(session) # NoWord
    /\ quiz.timer # "none"
    /\ IF quiz.timer = "correct"
       THEN RevisionCardComplete(3)
       ELSE /\ quiz' = [quiz EXCEPT !.showNextButton = TRUE, !.timer = "none"]
            /\ lastEvent' = "done"
            /\ UNCHANGED <<harness, now, vocab, profile, screen, session,
                           sentenceSession, memo, timers, answered,
                           reviewsAtStart>>

\* QuizScreen.handleNext ("Got It / Next Card") and onSkip ("Skip") on the
\* review screen: both grade the card with quality 1.
RevisionNextOrSkip ==
    /\ screen.key = "review"
    /\ currentCard(session) # NoWord
    /\ \/ quiz.showNextButton /\ quiz.selected # NoWord
       \/ quiz.selected = NoWord /\ ~quiz.showNextButton /\ CanGrade
    /\ RevisionCardComplete(1)

\* The timeout of handleCardComplete fires: endSession() of the revision,
\* setSession(null) and navigate("home").
RevisionTimerFires ==
    /\ timers # <<>>
    /\ timers' = Tail(timers)
    /\ session' = Null
    /\ screen' = [key |-> "home", category |-> Head(timers).category]
    /\ quiz' = InitialQuiz
    /\ randomCard' = NoWord
    /\ lastEvent' = "done"
    /\ UNCHANGED <<card, prevCard, grades, choices, sentenceQuiz, storageFull,
                   now, vocab, profile, sentenceSession, memo, answered,
                   reviewsAtStart>>

\* The session size select of the settings screen.
RevisionSetSessionSize ==
    \E size \in SessionSizes :
        /\ screen.key = "settings"
        /\ state' = [state EXCEPT !.sessionSize = size]
        /\ stored' = saveAppState(state', stored, storageFull)
        /\ lastEvent' = "done"
        /\ UNCHANGED <<harness, now, vocab, screen, session, sentenceSession,
                       memo, timers, quiz, answered, reviewsAtStart>>

NextRevision ==
    \/ RevisionStartFullReview
    \/ RevisionStartSession
    \/ RevisionNavigate
    \/ RevisionSetSessionSize
    \/ RevisionSelect
    \/ RevisionTimeout
    \/ RevisionNextOrSkip
    \/ RevisionTimerFires
    \/ PracticeOpen
    \/ PracticeSelect
    \/ PracticeTimeout
    \/ PracticeNext
    \/ PracticeSkip
    \/ TickQueue

\* The revision after its first render, with the stored profiles of the
\* catch-up queues; the empty profile comes with the catalogs of one and of
\* three words.
FirstRunCatalogs == {1, 3}      \* words of the catalog of an empty profile
InitRevision ==
    InitCatchUp /\ (DOMAIN state.srs = {} => Len(vocab) \in FirstRunCatalogs)

SpecRevision == InitRevision /\ [][NextRevision]_vars

\* How often id occurs in the queue q.
Count(q, id) == Cardinality({i \in 1..Len(q) : q[i] = id})

ReviewedIds == WordIds(vocab) \cap DOMAIN state.srs

\* C27: startFullReviewSession of the revision src/unnamed/part_001 builds a
\* queue that holds every due item once, each of the min(20, |reviewed|)
\* reviewed items with the highest lapses three more times, and min(5, |new|)
\* new items once; its length is |due| + 3 * min(20, |reviewed|) +
\* min(5, |new|), whatever the session size.
C27_PrioritizedQueue ==
    [][CatchUpStarts =>
          LET q == session'.studyQueue
              due == DueIds(vocab, state.srs, now)
              new == NewIds(vocab, state.srs)
              batch == {id \in ReviewedIds : Count(q, id) >= 3}
          IN  /\ Range(q) \subseteq WordIds(vocab)
              /\ \A id \in ReviewedIds :
                    Count(q, id) = (IF id \in due THEN 1 ELSE 0)
                                   + (IF id \in batch THEN 3 ELSE 0)
              /\ Cardinality(batch) = Min(WEAK_CARD_BATCH_SIZE, Cardinality(ReviewedIds))
              /\ \A a \in batch : \A b \in ReviewedIds \ batch :
                    state.srs[a].lapses >= state.srs[b].lapses
              /\ \A id \in new : Count(q, id) <= 1
              /\ Cardinality({id \in new : Count(q, id) = 1})
                    = Min(MAX_NEW_CARDS_TO_LEARN, Cardinality(new))
              /\ Len(q) = Cardinality(due)
                          + 3 * Min(WEAK_CARD_BATCH_SIZE, Cardinality(ReviewedIds))
                          + Min(MAX_NEW_CARDS_TO_LEARN, Cardinality(new))
              /\ session'.totalCards = Len(q)]_vars

\* A queue of 11 due items, 3 * 20 weakest items and 5 of 7 new items, built
\* with session size 5.
C27_Witness ==
    /\ session # Null
    /\ session.sessionCategory = FULL_REVIEW_ID
    /\ state.sessionSize = 5
    /\ Cardinality(DOMAIN state.srs) = 22
    /\ Len(vocab) = 29
    /\ Len(session.studyQueue) = 11 + 3 * 20 + 5

\* C28: whenever startSession runs at time now, every item of the category
\* whose record has due <= now is treated as due, also when its due time
\* passed after the last change of the srs records: with an unlimited
\* session size it is in the queue of the session that starts.
C28_DueAtStartTime ==
    [][(/\ session' # session
        /\ session' # Null
        /\ session'.sessionCategory # FULL_REVIEW_ID
        /\ session'.index = 0
        /\ state.sessionSize = Unlimited) =>
          (DueIds(vocab, state.srs, now)
              \cap WordsOf(vocab, session'.sessionCategory))
                 \subseteq Range(session'.studyQueue)]_vars

(************************* answer choices **********************************)
MaxPool == 6        \* largest catalog the choices are generated from

\* The application with a catalog of 1..MaxPool words and nothing stored.
InitChoices ==
    /\ card = FreshCard(1)
    /\ prevCard = FreshCard(1)
    /\ grades = <<>>
    /\ now = 0
    /\ \E n \in 1..MaxPool : vocab = ProfileVocab(n)
    /\ state = defaultAppState
    /\ screen = [key |-> "home", category |-> ""]
    /\ session = Null
    /\ sentenceSession = Null
    /\ \E rnd \in RandStreams : memo = allCategoryStats(vocab, state.srs, 0, rnd)
    /\ timers = <<>>
    /\ quiz = InitialQuiz
    /\ lastEvent = "init"
    /\ answered = 0
    /\ reviewsAtStart = 0
    /\ randomCard = NoWord
    /\ choices = NoChoices
    /\ stored = state
    /\ storageFull = FALSE
    /\ sentenceQuiz = NoSentenceQuiz

\* QuizScreen is mounted with a word, or the mounted one is given another
\* word (the effect on [word] runs on every mount and on every change of the
\* word): the choices are generated from ALL_WORDS and the selection is
\* cleared.
MountQuiz ==
    \E word \in WordIds(vocab), rnd \in QueueStreams :
        /\ word # choices.word
        /\ choices' = [word |-> word,
                       options |-> generateChoices(word, vocab, rnd)]
        /\ quiz' = InitialQuiz
        /\ lastEvent' = "done"
        /\ UNCHANGED <<card, prevCard, grades, storageFull, randomCard, sentenceQuiz, now,
                       vocab, profile, screen, session, sentenceSession, memo,
                       timers, answered, reviewsAtStart>>

\* QuizScreen leaves the screen (the top bar, the end of the session): its
\* state is dropped and the cleanup of its effect clears the pending delay.
UnmountQuiz ==
    /\ choices # NoChoices
    /\ choices' = NoChoices
    /\ quiz' = InitialQuiz
    /\ lastEvent' = "done"
    /\ UNCHANGED <<card, prevCard, grades, storageFull, randomCard, sentenceQuiz, now,
                   vocab, profile, screen, session, sentenceSession, memo,
                   timers, answered, reviewsAtStart>>

\* QuizScreen.handleSelect(choice) on one of the buttons rendered from choices.
SelectChoice ==
    \E choice \in Range(choices.options) :
        /\ quiz.selected = NoWord
        /\ quiz' = [selected |-> choice, showNextButton |-> FALSE,
                    timer |-> IF choice = choices.word THEN "correct" ELSE "wrong"]
        /\ lastEvent' = "done"
        /\ UNCHANGED <<harness, now, vocab, profile, screen, session,
                       sentenceSession, memo, timers, answered, reviewsAtStart>>

NextChoices == MountQuiz \/ UnmountQuiz \/ SelectChoice

SpecChoices == InitChoices /\ [][NextChoices]_vars

\* C29: generateChoices(word, pool) returns a list that contains the target
\* exactly once and no item twice, consists of the target and of pool items
\* other than the target, and has min(4, 1 + number of other pool items)
\* entries.
C29_Choices ==
    choices.word # NoWord =>
        LET options == choices.options
            others == WordIds(vocab) \ {choices.word}
        IN  /\ Count(options, choices.word) = 1
            /\ \A id \in Range(options) : Count(options, id) = 1
            /\ Range(options) \subseteq {choices.word} \cup others
            /\ Len(options) = Min(4, 1 + Cardinality(others))

\* Four choices out of six words, and a wrong one picked.
C29_Witness ==
    /\ Len(vocab) = 6
    /\ Len(choices.options) = 4
    /\ quiz.selected \in Range(choices.options) \ {choices.word}

(************************* sentence builder ********************************)
NUM_DYNAMIC_DISTRACTORS == 4

\* Array.prototype.join(' ').
RECURSIVE Join(_)
Join(tokens) ==
    IF tokens = <<>> THEN ""
    ELSE IF Len(tokens) = 1 THEN tokens[1]
    ELSE tokens[1] \o " " \o Join(Tail(tokens))

\* A value of type Sentence whose token list names one token twice (no
\* sentence of the data does).
REPEATED_SENTENCE == [id |-> 4, tokens |-> <<"hari", "hari", "hondayi">>]

\* The sentence with the given id.
SentenceOf(id) ==
    CHOOSE s \in Range(SENTENCES) \cup {REPEATED_SENTENCE} : s.id = id

\* allTokensSet: the tokens of the first n sentences, in insertion order.
RECURSIVE AddTokens(_, _, _)
AddTokens(pool, tokens, n) ==
    IF n > Len(tokens) THEN pool
    ELSE AddTokens(IF tokens[n] \in Range(pool) THEN pool
                   ELSE Append(pool, tokens[n]), tokens, n + 1)

RECURSIVE TokensUpTo(_)
TokensUpTo(n) ==
    IF n = 0 THEN <<>> ELSE AddTokens(TokensUpTo(n - 1), SENTENCES[n].tokens, 1)

ALL_SENTENCE_TOKENS == TokensUpTo(Len(SENTENCES))

\* array.filter(pred) on a list of tokens.
RECURSIVE FilterTokens(_, _)
FilterTokens(tokens, keep) ==
    IF tokens = <<>> THEN <<>>
    ELSE IF Head(tokens) \in keep
         THEN <<Head(tokens)>> \o FilterTokens(Tail(tokens), keep)
         ELSE FilterTokens(Tail(tokens), keep)

\* The word bank of the mount effect and of handleClear: the tokens of the
\* sentence and up to four distractors from the other sentences, shuffled.
WordBank(correctTokens, globalTokenPool, rnd) ==
    LET distractorCandidates ==
            FilterTokens(globalTokenPool,
                         Range(globalTokenPool) \ Range(correctTokens))
        selectedDistractors ==
            Slice(shuffle(distractorCandidates, rnd, 0), NUM_DYNAMIC_DISTRACTORS)
        fullWordBank == correctTokens \o selectedDistractors
    IN  shuffle(fullWordBank, rnd, Len(distractorCandidates))

\* The final check of handleWordClick taken as an unordered comparison.
Success_AnyOrder(newSentence, tokens) == Range(newSentence) = Range(tokens)

\* The final check of handleWordClick.
Success(newSentence, tokens) == Join(newSentence) = Join(tokens)

\* SentenceQuizScreen is mounted with a sentence (the effect on [sentence]).
MountSentence ==
    \E s \in Range(SENTENCES), rnd \in RandStreams :
        /\ ~sentenceQuiz.mounted
        /\ sentenceQuiz' =
              [mounted |-> TRUE, sentence |-> s.id,
               wordChoices |-> WordBank(s.tokens, ALL_SENTENCE_TOKENS, rnd),
               constructedSentence |-> <<>>, isCorrect |-> "null",
               showNextButton |-> FALSE]
        /\ lastEvent' = "done"
        /\ UNCHANGED <<card, prevCard, grades, storageFull, randomCard, choices, now, vocab,
                       profile, screen, session, sentenceSession, memo, timers,
                       quiz, answered, reviewsAtStart>>

\* handleWordClick(word) on one of the buttons rendered from wordChoices.
WordClick ==
    \E word \in Range(sentenceQuiz.wordChoices) :
        LET tokens == SentenceOf(sentenceQuiz.sentence).tokens
            newSentence == Append(sentenceQuiz.constructedSentence, word)
            complete == Len(newSentence) = Len(tokens)
        IN  /\ sentenceQuiz.mounted
            /\ sentenceQuiz.isCorrect = "null"
            /\ sentenceQuiz' =
                  [sentenceQuiz EXCEPT
                      !.constructedSentence = newSentence,
                      !.isCorrect =
                          IF complete
                          THEN (IF Success(newSentence, tokens)
                                THEN "true" ELSE "false")
                          ELSE @,
                      !.showNextButton = IF complete THEN TRUE ELSE @,
                      !.wordChoices =
                          FilterTokens(@, Range(@) \ {word})]
            /\ lastEvent' = "done"
            /\ UNCHANGED <<card, prevCard, grades, storageFull, randomCard, choices, now,
                           vocab, profile, screen, session, sentenceSession,
                           memo, timers, quiz, answered, reviewsAtStart>>

\* handleClear, the "Clear" button.
ClearSentence ==
    \E rnd \in RandStreams :
        /\ sentenceQuiz.mounted
        /\ sentenceQuiz.isCorrect = "null"
        /\ sentenceQuiz.constructedSentence # <<>>
        /\ sentenceQuiz' =
              [sentenceQuiz EXCEPT
                  !.wordChoices =
                      WordBank(SentenceOf(sentenceQuiz.sentence).tokens,
                               ALL_SENTENCE_TOKENS, rnd),
                  !.constructedSentence = <<>>]
        /\ lastEvent' = "done"
        /\ UNCHANGED <<card, prevCard, grades, storageFull, randomCard, choices, now, vocab,
                       profile, screen, session, sentenceSession, memo, timers,
                       quiz, answered, reviewsAtStart>>

\* handleNext ("Next Sentence") after the evaluation, or onSkip ("Skip")
\* before it: the screen is mounted anew for another sentence.
LeaveSentence ==
    /\ sentenceQuiz.mounted
    /\ sentenceQuiz.isCorrect = "null" \/ sentenceQuiz.showNextButton
    /\ sentenceQuiz' = NoSentenceQuiz
    /\ lastEvent' = "done"
    /\ UNCHANGED <<card, prevCard, grades, storageFull, randomCard, choices, now, vocab,
                   profile, screen, session, sentenceSession, memo, timers,
                   quiz, answered, reviewsAtStart>>

NextSentence == MountSentence \/ WordClick \/ ClearSentence \/ LeaveSentence

SpecSentence == Init /\ [][NextSentence]_vars

\* C30: a constructed sentence is marked correct exactly if the clicked
\* tokens are the canonical token list in the same order, and it is
\* evaluated exactly when the number of clicked tokens reaches the length of
\* that list: any other order of the tokens, and any sequence with a
\* distractor, is marked incorrect.
C30_OrderedEquality ==
    sentenceQuiz.mounted =>
        LET tokens == SentenceOf(sentenceQuiz.sentence).tokens
            clicked == sentenceQuiz.constructedSentence
        IN  /\ Len(clicked) <= Len(tokens)
            /\ (sentenceQuiz.isCorrect # "null") = (Len(clicked) = Len(tokens))
            /\ (sentenceQuiz.isCorrect = "true") = (clicked = tokens)
            /\ (sentenceQuiz.isCorrect = "false") =
                  (Len(clicked) = Len(tokens) /\ clicked # tokens)
            /\ sentenceQuiz.showNextButton = (sentenceQuiz.isCorrect # "null")

\* The three tokens of a sentence clicked in another order are marked
\* incorrect.
C30_Witness ==
    /\ sentenceQuiz.mounted
    /\ sentenceQuiz.constructedSentence = <<"nama", "oyage", "mokakda?">>
    /\ sentenceQuiz.isCorrect = "false"

(**************************** persistence **********************************)
\* From now on localStorage.setItem throws.
StorageFills ==
    /\ ~storageFull
    /\ storageFull' = TRUE
    /\ lastEvent' = "done"
    /\ UNCHANGED <<card, prevCard, grades, randomCard, choices, sentenceQuiz,
                   now, vocab, profile, screen, session, sentenceSession,
                   memo, timers, quiz, answered, reviewsAtStart>>

NextStorage ==
    \/ UINavigate
    \/ UIEndSession
    \/ UIStartSession
    \/ UIStartFullReviewSession
    \/ UISetSessionSize
    \/ QuizSelect
    \/ QuizTimeout
    \/ QuizNext
    \/ QuizSkip
    \/ TimerFires
    \/ StorageFills

SpecStorage == Init /\ [][NextStorage]_vars

\* C31: a failing write of the profile leaves the stored copy as it was and
\* takes nothing back from the profile in memory or from the session; answers
\* are graded and the session advances as with a working storage.
C31_SaveFailureHarmless ==
    /\ [](storageFull \/ stored = state)
    /\ [][(storageFull /\ state' # state) => stored' = stored]_vars
    /\ [][(session # Null /\ answered' = answered + 1) =>
             /\ \E quality \in {1, 3} :
                   state' = GradeState(state, currentCard(session), quality, now)
             /\ session' = AdvanceSession(session)]_vars

\* Two answers graded and the session advanced twice while every write since
\* the start of the session failed.
C31_Witness ==
    /\ storageFull
    /\ stored.totalReviews = 0
    /\ state.totalReviews = 2
    /\ session # Null
    /\ session.index = 2

(************************* loading the profile *****************************)
\* What localStorage.getItem(APP_STATE_KEY) can return: nothing, a text
\* JSON.parse rejects, the text "null", or an object in which each of srs,
\* totalReviews and sessionSize is present or missing (Undefined); srs is
\* null, {}, a map with one record, or a map with a null entry.
StoredSrs == {"missing", "null", "empty", "one", "badEntry"}
StoredValues ==
    [kind : {"absent", "unparsable", "null"}, srs : {"missing"},
     totalReviews : {Undefined}, sessionSize : {Undefined}]
    \cup [kind : {"object"}, srs : StoredSrs, totalReviews : {Undefined, 7},
          sessionSize : {Undefined, 5}]

\* The srs field of the loaded profile: whether it is an object, and its
\* records.
LoadedSrs(tag) ==
    [isMap |-> tag # "null",
     records |-> IF tag = "one"
                 THEN [id \in {1} |-> calculateSM2(FreshCard(1), 3, 0)]
                 ELSE [id \in {} |-> FreshCard(id)]]

\* loadAppState(): the defaults when nothing is stored or the try block
\* throws (JSON.parse, reading srs of null, reading due of a null entry),
\* otherwise { ...defaultAppState, ...loadedState }.
loadAppState(json) ==
    LET default == [srs |-> LoadedSrs("empty"), totalReviews |-> 0,
                    correctReviews |-> 0, sessionSize |-> 10]
    IN  IF json.kind # "object" \/ json.srs = "badEntry" THEN default
        ELSE [srs |-> IF json.srs = "missing" THEN default.srs
                      ELSE LoadedSrs(json.srs),
              totalReviews |-> IF json.totalReviews = Undefined
                               THEN default.totalReviews ELSE json.totalReviews,
              correctReviews |-> default.correctReviews,
              sessionSize |-> IF json.sessionSize = Undefined
                              THEN default.sessionSize ELSE json.sessionSize]

\* JSON.stringify(state) as a stored value: an object with every field of the
\* profile present.
stringify(s) ==
    [kind |-> "object",
     srs |-> IF DOMAIN s.srs.records = {} THEN "empty" ELSE "one",
     totalReviews |-> s.totalReviews,
     sessionSize |-> s.sessionSize]

\* The first render of App over the loaded profile: the statistics useMemo
\* reads state.srs[word.id] for the first word and throws a TypeError when
\* srs is null.
StatsThrows(s) == ~s.srs.isMap

\* The application is constructed over a stored value: useState(loadAppState),
\* the first render and, when it commits, the effect saveAppState(state). A
\* render that throws mounts nothing and runs no effect.
InitLoad ==
    /\ card = FreshCard(1)
    /\ prevCard = FreshCard(1)
    /\ grades = <<>>
    /\ now = 0
    /\ vocab = VOCAB
    /\ storageFull = FALSE
    /\ \E json \in StoredValues :
          LET loaded == loadAppState(json)
          IN  IF StatsThrows(loaded)
              THEN /\ state = Null
                   /\ memo = Null
                   /\ screen = Null
                   /\ stored = json
                   /\ lastEvent = "renderThrows"
              ELSE /\ state = loaded
                   /\ \E rnd \in RandStreams :
                         memo = allCategoryStats(VOCAB, state.srs.records, 0, rnd)
                   /\ screen = [key |-> "home", category |-> ""]
                   /\ stored = saveAppState(stringify(loaded), json, storageFull)
                   /\ lastEvent = "init"
    /\ session = Null
    /\ sentenceSession = Null
    /\ timers = <<>>
    /\ quiz = InitialQuiz
    /\ answered = 0
    /\ reviewsAtStart = 0
    /\ randomCard = NoWord
    /\ choices = NoChoices
    /\ sentenceQuiz = NoSentenceQuiz

\* Another value is left in localStorage (an earlier version of the
\* application, another tab, the user).
StoreValue ==
    /\ stored' \in StoredValues
    /\ stored' # stored
    /\ lastEvent' = "done"
    /\ UNCHANGED <<harness, now, vocab, state, screen, session,
                   sentenceSession, memo, timers, quiz, answered,
                   reviewsAtStart>>

\* The page is loaded again: useState(loadAppState), the first render and the
\* save effect of its commit.
Reload ==
    /\ LET loaded == loadAppState(stored)
       IN  IF StatsThrows(loaded)
           THEN /\ state' = Null
                /\ memo' = Null
                /\ screen' = Null
                /\ stored' = stored
                /\ lastEvent' = "renderThrows"
           ELSE /\ state' = loaded
                /\ \E rnd \in RandStreams :
                      memo' = allCategoryStats(vocab, loaded.srs.records, now, rnd)
                /\ screen' = [key |-> "home", category |-> ""]
                /\ stored' = saveAppState(stringify(loaded), stored, storageFull)
                /\ lastEvent' = "done"
    /\ UNCHANGED <<harness, now, vocab, session, sentenceSession, timers,
                   quiz, answered, reviewsAtStart>>

NextLoad == StoreValue \/ Reload

SpecLoad == InitLoad /\ [][NextLoad]_vars

\* C32: loadAppState returns a usable profile for every stored value: srs is
\* a map, the counters are numbers and the session size is one of the sizes,
\* and the application is mounted over it.
C32_LoadUsable ==
    LET loaded == loadAppState(stored)
    IN  /\ loaded.srs.isMap
        /\ loaded.totalReviews \in Nat
        /\ loaded.correctReviews \in Nat
        /\ loaded.sessionSize \in SessionSizes
        /\ lastEvent \in {"init", "done"} => state # Null

(****************************** liveness ***********************************)
\* The vocabulary sessions of the application; a timeout that was set does
\* fire (the event loop runs every pending setTimeout callback).
NextLive ==
    \/ UINavigate
    \/ UIEndSession
    \/ UIStartSession
    \/ UIStartFullReviewSession
    \/ QuizSelect
    \/ QuizTimeout
    \/ QuizNext
    \/ QuizSkip
    \/ TimerFires
    \/ Tick

SpecLive == Init /\ [][NextLive]_vars /\ WF_vars(TimerFires)

Completed == session # Null /\ ~session.active

\* C33: after the last item of a session is answered, the session eventually
\* becomes null and the screen leaves the review view, through the delayed
\* endSession or through an earlier navigation.
C33_CompletedEnds == Completed ~> (session = Null /\ screen.key # "review")

\* The last card was answered and the endSession timeout is pending.
C33_Witness ==
    /\ Completed
    /\ session.index = session.totalCards
    /\ screen.key = "review"
    /\ Len(timers) = 1

(*********************** cancelled feedback delay **************************)
\* The records of the words other than id are the same before and after.
OthersKept(id) ==
    \A other \in DOMAIN state'.srs \ {id} :
        other \in DOMAIN state.srs /\ state'.srs[other] = state.srs[other]

\* C34: a pending ANSWER_DELAY_MS timeout belongs to the card on display;
\* navigating away during the delay cancels it and grades nothing, and every
\* grade that is applied is a grade of the card on display.
C34_DelayCancelled ==
    /\ [](quiz.timer # "none" => QuizShown /\ quiz.selected # NoWord)
    /\ [][lastEvent' = "navigate:timerCleared" =>
             /\ quiz' = InitialQuiz
             /\ state' = state
             /\ session' = Null]_vars
    /\ [][state'.totalReviews # state.totalReviews =>
             /\ QuizShown
             /\ state'.srs[QuizKey(screen, session)].lastReviewed = now
             /\ OthersKept(QuizKey(screen, session))]_vars

\* The first card was graded, a choice was made on the second, and the user
\* left the review during its feedback delay.
C34_Witness ==
    /\ lastEvent = "navigate:timerCleared"
    /\ quiz.timer = "none"
    /\ session = Null
    /\ state.totalReviews = 1
    /\ Cardinality(DOMAIN state.srs) = 1

(************************ the quiz view has a card *************************)
\* C35: whenever renderScreen takes the quiz card branch (isVocabReview or
\* isPracticeMode on screen review or practice), a session exists and its
\* current card is defined, so that session!.index and currentCard!.id read
\* no null.
C35_CardViewHasCard ==
    (screen.key \in {"review", "practice"}
        /\ (isVocabReview(screen, session) \/ isPracticeMode(screen)))
    => (session # Null /\ currentCard(session) # NoWord)

(******************* sentences with a repeated token ***********************)
\* SentenceQuizScreen is mounted with the sentence of the repeated token.
MountRepeated ==
    \E rnd \in RandStreams :
        /\ ~sentenceQuiz.mounted
        /\ sentenceQuiz' =
              [mounted |-> TRUE, sentence |-> REPEATED_SENTENCE.id,
               wordChoices |-> WordBank(REPEATED_SENTENCE.tokens,
                                        ALL_SENTENCE_TOKENS, rnd),
               constructedSentence |-> <<>>, isCorrect |-> "null",
               showNextButton |-> FALSE]
        /\ lastEvent' = "done"
        /\ UNCHANGED <<card, prevCard, grades, storageFull, randomCard, choices, now, vocab,
                       profile, screen, session, sentenceSession, memo, timers,
                       quiz, answered, reviewsAtStart>>

NextRepeated ==
    MountRepeated \/ MountSentence \/ WordClick \/ ClearSentence \/ LeaveSentence

SpecRepeated == Init /\ [][NextRepeated]_vars

\* C36: while a sentence is unevaluated, every token of it is in the word
\* bank as many times as it still has to be used: its occurrences in the
\* sentence less the clicks on it so far.
C36_TokensStayAvailable ==
    (sentenceQuiz.mounted /\ sentenceQuiz.isCorrect = "null") =>
        LET tokens == SentenceOf(sentenceQuiz.sentence).tokens
        IN  \A t \in Range(tokens) :
                Count(sentenceQuiz.wordChoices, t) >=
                    Count(tokens, t) - Count(sentenceQuiz.constructedSentence, t)

(********************* shape of the catch-up queue *************************)
\* C37: the queue of a session started by startFullReviewSession holds only
\* catalog items with a record, holds none twice, and is as long as the
\* smaller of the session limit and the number of catalog items with a
\* record.
C37_CatchUpQueueShape ==
    [][CatchUpStarts =>
          LET queue == session'.studyQueue
              reviewed == {id \in WordIds(vocab) : HasRecord(state.srs, id)}
          IN  /\ Range(queue) \subseteq reviewed
              /\ \A i, j \in DOMAIN queue : queue[i] = queue[j] => i = j
              /\ Len(queue) = Min(CatchUpLimit, Cardinality(reviewed))
              /\ session'.totalCards = Len(queue)]_vars

\* A catch-up session of 10 out of 22 reviewed items, with weak items and
\* others in its queue, while the catalog holds new items too.
C37_Witness ==
    /\ session # Null
    /\ session.sessionCategory = FULL_REVIEW_ID
    /\ session.index = 0
    /\ Len(session.studyQueue) = 10
    /\ Cardinality(DOMAIN state.srs) = 22
    /\ Len(vocab) > 22
    /\ Range(session.studyQueue) \cap WeakIds # {}
    /\ Range(session.studyQueue) \ WeakIds # {}

(********************** sentence completion frame **************************)
\* C38: a step of handleSentenceComplete on the sentence on display (Next
\* Sentence after either evaluation, or Skip) moves the index of the
\* sentence session forward by exactly 1, keeps its queue, and leaves the
\* records, the counters and the stored profile as they were.
C38_SentenceCompleteFrame ==
    [][(isSentenceQuiz(screen, sentenceSession)
            /\ sentenceSession' # sentenceSession
            /\ sentenceSession' # Null) =>
          /\ sentenceSession'.index = sentenceSession.index + 1
          /\ sentenceSession'.queue = sentenceSession.queue
          /\ sentenceSession'.active =
                (sentenceSession'.index < Len(sentenceSession.queue))
          /\ state'.srs = state.srs
          /\ state'.totalReviews = state.totalReviews
          /\ state'.correctReviews = state.correctReviews
          /\ stored' = stored
          /\ session' = session]_vars

\* A profile with one graded word, and a sentence session whose first
\* sentence has been completed.
C38_Witness ==
    /\ sentenceSession # Null
    /\ sentenceSession.index = 1
    /\ sentenceSession.active
    /\ state.totalReviews = 1
    /\ Cardinality(DOMAIN state.srs) = 1

(******************* a graded item is not due at once **********************)
\* A step of startSession that starts a session of a category.
StandardStarts ==
    /\ session' # session
    /\ session' # Null
    /\ session'.sessionCategory # FULL_REVIEW_ID
    /\ session'.index = 0

\* C39: every record of the profile has an interval of at least 1 and is due
\* at least a day after its lastReviewed time, so that a graded item is
\* neither new nor due at the time of its grade; and a session started by
\* startSession holds no item whose record is not due yet, the items graded
\* just before among them.
C39_GradedNotDueAtOnce ==
    /\ [](\A id \in DOMAIN state.srs :
              /\ state.srs[id].interval >= 1
              /\ state.srs[id].due >= state.srs[id].lastReviewed + DayMs
              /\ state.srs[id].lastReviewed = now =>
                    id \notin NewIds(vocab, state.srs)
                                \cup DueIds(vocab, state.srs, now))
    /\ [][StandardStarts =>
             \A id \in Range(session'.studyQueue) :
                 HasRecord(state.srs, id) =>
                     /\ state.srs[id].due <= now
                     /\ state.srs[id].lastReviewed < now]_vars

\* A session of the category started right after its first word was graded
\* in an earlier session: its queue leaves that word out.
C39_Witness ==
    /\ session # Null
    /\ session.index = 0
    /\ session.sessionCategory # FULL_REVIEW_ID
    /\ \E id \in DOMAIN state.srs :
          /\ state.srs[id].lastReviewed = now
          /\ id \notin Range(session.studyQueue)
    /\ session.studyQueue # <<>>

(********************* grades of the quiz screen ***************************)
\* A step that moves the session on to its next card.
Advances ==
    /\ session # Null
    /\ session' # Null
    /\ session'.studyQueue = session.studyQueue
    /\ session'.index = session.index + 1

\* C40: the grade of a card is 3 exactly if the selected choice is the card
\* and 1 otherwise. After a correct choice the session moves on when the
\* feedback delay ends, with no further click; after a wrong choice the end
\* of the delay only shows the Next button, and the session moves on by a
\* click on it. Skip moves the session on only while no choice is selected.
\* (A step that ends the session unmounts the card and its timeout.)
C40_QuizGrades ==
    /\ [](quiz.showNextButton =>
             (quiz.selected # NoWord /\ quiz.selected # QuizKey(screen, session)))
    /\ [](quiz.timer = "correct" => ENABLED QuizTimeout)
    /\ [][Advances =>
             LET id == QuizKey(screen, session)
                 quality == IF quiz.selected = id THEN 3 ELSE 1
             IN  /\ state' = GradeState(state, id, quality, now)
                 /\ quiz.selected = id => quiz.timer = "correct"
                 /\ quiz.selected \notin {NoWord, id} =>
                       (quiz.showNextButton /\ quiz.timer = "none")
                 /\ quiz.selected = NoWord =>
                       (~quiz.showNextButton /\ quiz.timer = "none")]_vars
    /\ [][(quiz.timer = "correct" /\ quiz'.timer # "correct"
               /\ session' # Null) => Advances]_vars
    /\ [][(quiz.timer = "wrong" /\ quiz'.timer # "wrong"
               /\ session' # Null) =>
             /\ quiz' = [quiz EXCEPT !.showNextButton = TRUE, !.timer = "none"]
             /\ session' = session
             /\ state' = state]_vars

\* The first card was chosen correctly and the session moved on by itself;
\* the choice on the second card was wrong, its delay is over, and the card
\* stays until Next is clicked.
C40_Witness ==
    /\ session # Null
    /\ session.index = 1
    /\ state.totalReviews = 1
    /\ state.correctReviews = 1
    /\ quiz.showNextButton
    /\ quiz.selected # QuizKey(screen, session)
    /\ quiz.timer = "none"
====
